---- MODULE Spec2Model ----
(***************************************************************************)
(* CaShield: the real-time pipeline of scripts/rt_stream.py (polling loop, *)
(* FAST/FINAL transcription, day log append/replace, device restart), the  *)
(* voice-activity segmenter of src/vad/webrtc.py, the audio source of      *)
(* src/audio/sd_input.py, the summarization worker of                      *)
(* scripts/llm_worker.py and src/llm/queue.py, build_window of             *)
(* src/llm/windowing.py; FuzzyKWS of src/kws/fuzzy.py, the StatusManager   *)
(* of src/status_manager.py and purge_date of scripts/purge_raw_logs.py.   *)
(* Further: SDInput's buffer block by block, GeminiSummarizer.summarize of  *)
(* src/llm/client_gemini.py, build_window one loop iteration per step, the *)
(* log watcher across a date change, and the entry ids of one process.     *)
(***************************************************************************)
EXTENDS Integers, Sequences, FiniteSets, TLC

(* ------------------------------ bounds -------------------------------- *)
MaxUtt == 2          \* utterances handled over all runs of the process
MaxBatch == 2        \* utterances returned by one vad.feed call
MaxRuns == 2         \* process starts (the day log survives a restart)
MaxClock == 1        \* clock ticks
TicksPerDay == 1     \* clock ticks in one calendar day
NFrames == 10        \* frames in the audio stream given to the segmenter
MaxChunk == 5        \* bytes given to one feed call
FrameBytes == 2      \* frame_bytes of the segmenter
PrevFrames == 3      \* prev_frames of the segmenter
PostFrames == 2      \* post_frames of the segmenter
MaxFrames == 6       \* _max_frames of the segmenter
MaxLines == 3        \* lines of a log with arbitrary timestamps given to build_window
MaxUniform == 9      \* lines of a log whose lines are one second apart
MaxTs == 3           \* largest timestamp (seconds) of a log with arbitrary timestamps
MaxSec == 5          \* largest min_sec / max_sec given to build_window
MaxLineLen == 3      \* characters of the text of a log line
MaxLogLen == 2       \* lines of the day log read by the summarization watcher
MaxKw == 2           \* entries of the keyword file
MaxLevel == 2        \* largest level number in the keyword file
max_retries == 2     \* LLMConfig.max_retries of this deployment
MaxBlocks == 2       \* SDInput.max_blocks
MaxRestarts == 2     \* restarts of the audio source in one run of the loop
MaxKwChars == 2      \* characters of a configured keyword
MaxKwList == 2       \* configured keywords of FuzzyKWS
MaxText == 3         \* characters of the text given to FuzzyKWS.detect
NThreads == 2        \* threads calling the StatusManager
MaxPLines == 3       \* lines of the day log before the first purge
MaxPSum == 2         \* records of the day's summaries file
MaxPClock == 3       \* hours that pass
MaxTtl == 1          \* largest --ttl-hours given to purge_date

(* ------------------------- program constants -------------------------- *)
FINAL_MAX_WORKERS == 1
ID_MODULUS == 1000000
FALLBACK_TO_DEFAULT == TRUE
WIN_MIN_SEC == 12
WIN_MAX_SEC == 30
WIN_MAX_TOKENS == 512
SEVERITY_UNKNOWN_WORD == 3
SEVERITY_UNSET == 2
SEVERITY_PLAIN == 2
RESTART_BACKOFF_S == 1

VARIABLES
    cfg,          \* [finalOnHitOnly]: ASRConfig.FINAL_ON_HIT_ONLY of this deployment
    now,          \* datetime.now(), in ticks
    log,          \* logs/YYYY-MM-DD.txt: day -> sequence of lines
    _ID_COUNTER,  \* module-level entry id counter
    pc,           \* position of the main thread
    batch,        \* utterances of the current vad.feed result not yet handled
    cur,          \* the utterance the main thread is handling (entry id, FAST hits)
    queue,        \* work queue of the FINAL executor
    fut,          \* futures returned by submit_final, by utterance
    wk,           \* what each executor thread is running
    cb,           \* _on_done activations, by thread (0 = main thread)
    nUtt,         \* utterances taken from vad.feed results so far
    run,          \* number of the running process
    exitCause,    \* why main was left
    ev,           \* the step just taken
    vad,          \* WebRTCVADSegmenter state
    vpat,         \* the audio stream: for each frame, whether the classifier calls it speech
    vpos,         \* bytes of the audio stream fed so far
    vout,         \* utterances emitted by feed so far
    wlines,       \* build_window: the parsed log lines given to it
    wng,          \* build_window: ng_index
    wcfg,         \* build_window: [min_sec, max_sec, max_tokens]
    snip,         \* build_window: the Snippet returned
    kwfile,       \* config/keywords.txt
    today,        \* logs/<today>.txt as the summarization watcher reads it
    seen_count,   \* watch_today: lines already examined
    q,            \* LLMJobRunner.q
    lw,           \* LLMJobRunner.worker: position, job in hand, summarize attempt
    summaries,    \* logs/summaries/<date>.jsonl
    errlog,       \* logs/summaries/<date>.errors.log
    errfile,      \* logs/summaries/errors/<date>-<idx>.log, by idx
    jobst,        \* per enqueued job: times dequeued, backend failures, how it ended
    cancelled,    \* the worker task was cancelled (process end)
    sdcfg,        \* RTStreamConfig: [fallback, device]
    sdin,         \* SDInput: _stream, _buf (blocks held), _last_cb_ts
    sdlock,       \* SDInput._lock: the thread holding it
    sdmain,       \* main thread of rt_stream: position, call site of the start, exit cause
    sdcb,         \* position of the audio callback thread
    ens,          \* the running or last _ensure_input_started call: steps taken, result
    pool,         \* DualASREngine._executor
    sacc,         \* accesses to _buf and _last_cb_ts made by the step just taken
    wr,           \* threads that have written _buf and _last_cb_ts
    fkws,         \* FuzzyKWS: keywords, keywords_hira, threshold, min_hira_len
    ktext,        \* FuzzyKWS.detect: the text of the last call
    khits,        \* FuzzyKWS.detect: what the last call returned
    sm,           \* StatusManager: _status, _lock (the thread holding it)
    smt,          \* per thread: the call it is in, its position, argument, return value
    smg,          \* value of the latest completed set_status, statuses ever passed
    plog,         \* logs/<date>.txt as purge_date sees it: exists, lines, mtime
    psum,         \* logs/summaries/<date>.jsonl: line_indices and the lines adopted
    pclock,       \* datetime.now() of purge_date, in hours
    pev,          \* the purge_date run just made
    \* SDInput's block buffer, seen block by block
    sbuf,         \* [buf, lock, cb, pop, chunks, arrived, ret, evicted, pops]
    \* one GeminiSummarizer.summarize call
    gem,          \* [pc, attempt, calls, sleeps, last, data]
    \* the log watcher and the pipeline across a date change
    dw,           \* [clock, files, started, date, seen_count, q, passes]
    \* entry ids handed out by one process
    ids           \* [counter, first, issued]

pipeVars == <<cfg, now, log, _ID_COUNTER, pc, batch, cur, queue, fut, wk, cb,
              nUtt, run, exitCause, ev>>
vadVars == <<vad, vpat, vpos, vout>>
winVars == <<wlines, wng, wcfg, snip>>
llmVars == <<kwfile, today, seen_count, q, lw, summaries, errlog, errfile, jobst, cancelled>>
sdVars == <<sdcfg, sdin, sdlock, sdmain, sdcb, ens, pool, sacc, wr>>
kwsVars == <<fkws, ktext, khits>>
smVars == <<sm, smt, smg>>
pgVars == <<plog, psum, pclock, pev>>
extVars == <<sbuf, gem, dw, ids>>
auxVars == <<kwsVars, smVars, pgVars, extVars>>
offPipe == <<vadVars, winVars, llmVars, sdVars, auxVars>>
offVad == <<winVars, llmVars, sdVars, auxVars>>
offWin == <<pipeVars, vadVars, llmVars, sdVars, auxVars>>
vars == <<cfg, now, log, _ID_COUNTER, pc, batch, cur, queue, fut, wk, cb,
          nUtt, run, exitCause, ev,
          vad, vpat, vpos, vout,
          wlines, wng, wcfg, snip,
          kwfile, today, seen_count, q, lw, summaries, errlog, errfile, jobst, cancelled,
          sdcfg, sdin, sdlock, sdmain, sdcb, ens, pool, sacc, wr,
          fkws, ktext, khits, sm, smt, smg, plog, psum, pclock, pev,
          sbuf, gem, dw, ids>>

(* ------------------------------ domains ------------------------------- *)
Days == 0..(MaxClock \div TicksPerDay)
Uids == 1..MaxUtt
Workers == 1..FINAL_MAX_WORKERS
Threads == 0..FINAL_MAX_WORKERS
\* what the ASR models can return: plain speech, speech holding a trigger
\* word, and a boilerplate hallucination
Texts == {"hello", "dogeza", "thanks"}
FINAL_ERROR == "<FINAL_ERROR>"
BANNED_HALLUCINATIONS == {"thanks"}

DateOf(t) == t \div TicksPerDay

(* ------------------------- pure functions ----------------------------- *)
is_banned(text) == text \in BANNED_HALLUCINATIONS

\* FuzzyKWS.detect on the texts of this model: the configured keywords found
detect(text) == IF text = "dogeza" THEN <<"dogeza">> ELSE <<>>

Pow10(k) == IF k = 0 THEN 1 ELSE IF k = 1 THEN 10 ELSE IF k = 2 THEN 100
            ELSE IF k = 3 THEN 1000 ELSE IF k = 4 THEN 10000 ELSE 100000

\* f"{n:06d}" as its six digits
Fmt6(n) == [i \in 1..6 |-> (n \div Pow10(6 - i)) % 10]

\* faulty variant: the counter stops at its largest value
_next_entry_id_Saturating(c) == IF c + 1 >= ID_MODULUS THEN c ELSE c + 1

\* _next_entry_id, line 71: the counter after one more id
_next_entry_id(c) == (c + 1) % ID_MODULUS

Who(role) == IF role = "clerk" THEN "clerk_label" ELSE "customer_label"

MkLine(ts, role, stage, entry_id, text, hits, uid) ==
    [ts |-> ts, who |-> Who(role), stage |-> stage, id |-> entry_id,
     text |-> text, hits |-> hits, uid |-> uid]

\* _append_log_line: the day file after the append
_append_log_line(lines, ts, role, stage, entry_id, text, hits, uid) ==
    Append(lines, MkLine(ts, role, stage, entry_id, text, hits, uid))

\* pat.match(line) of _replace_log_line
PatMatch(line, role, entry_id) == line.who = Who(role) /\ line.id = entry_id

\* index of the first matching line, 0 when there is none
FirstMatch(lines, role, entry_id) ==
    IF \E i \in 1..Len(lines) : PatMatch(lines[i], role, entry_id)
    THEN CHOOSE i \in 1..Len(lines) :
            /\ PatMatch(lines[i], role, entry_id)
            /\ \A j \in 1..(i - 1) : ~PatMatch(lines[j], role, entry_id)
    ELSE 0

\* _replace_log_line: the lines it would write back (timestamp kept)
_replace_log_line(lines, entry_id, role, new_stage, text, hits, uid) ==
    LET i == FirstMatch(lines, role, entry_id) IN
    IF i = 0 THEN lines
    ELSE [lines EXCEPT ![i] = MkLine(lines[i].ts, role, new_stage, entry_id, text, hits, uid)]

\* faulty variant: every logged utterance gets a FINAL pass
NeedFinal_Always(onHitOnly, hits) == TRUE

\* line 234: is a FINAL pass submitted
NeedFinal(onHitOnly, hits) == (~onHitOnly) \/ hits # <<>>

\* outcomes of the successive sd_in.start calls of one restart (TRUE: the
\* stream started, FALSE: start raised), up to the first success
StartResults == {<<TRUE>>, <<FALSE, TRUE>>, <<FALSE, FALSE, TRUE>>, <<FALSE, FALSE, FALSE>>}

\* _ensure_input_started: ok = FALSE when an exception leaves the function
_ensure_input_started(r, fallback) ==
    IF r[1] THEN [ok |-> TRUE, dev |-> "configured", attempts |-> <<"configured">>]
    ELSE IF r[2] THEN [ok |-> TRUE, dev |-> "configured", attempts |-> <<"configured", "configured">>]
    ELSE IF fallback
         THEN IF r[3] THEN [ok |-> TRUE, dev |-> "default",
                          attempts |-> <<"configured", "configured", "default">>]
              ELSE [ok |-> FALSE, dev |-> "none",
                    attempts |-> <<"configured", "configured", "default">>]
    ELSE [ok |-> FALSE, dev |-> "none", attempts |-> <<"configured", "configured">>]

(* ------------------------------ records ------------------------------- *)
NoId == <<>>
NoCur == [uid |-> 0, eid |-> NoId, logged |-> FALSE]
NoFut == [state |-> "none", eid |-> NoId, res |-> "", attached |-> FALSE, logged |-> FALSE]
NoCb == [st |-> "none", uid |-> 0, eid |-> NoId, text |-> "", hits |-> <<>>,
         err |-> FALSE, day |-> 0, snap |-> <<>>]
\* a step: what was done, for which utterance, and its outputs (detected: a
\* kws.detect call was made; alert: action_mgr.play_warning() was called)
Ev(op, uid, eid, text, hits, day, err, detected, alert) ==
    [op |-> op, uid |-> uid, eid |-> eid, text |-> text, hits |-> hits,
     day |-> day, err |-> err, detected |-> detected, alert |-> alert]
Ev0(op) == Ev(op, 0, NoId, "", <<>>, 0, FALSE, FALSE, FALSE)
EvU(op, uid, eid) == Ev(op, uid, eid, "", <<>>, 0, FALSE, FALSE, FALSE)

(* ------------------------------- Init --------------------------------- *)
PipeStart ==
    /\ now = 0
    /\ log = [d \in Days |-> <<>>]
    /\ _ID_COUNTER = 0
    /\ pc = "start"
    /\ batch = 0
    /\ cur = NoCur
    /\ queue = <<>>
    /\ fut = [u \in Uids |-> NoFut]
    /\ wk = [w \in Workers |-> 0]
    /\ cb = [t \in Threads |-> NoCb]
    /\ nUtt = 0
    /\ run = 1
    /\ exitCause = "none"
    /\ ev = Ev0("init")

\* WebRTCVADSegmenter.__init__
VadNew == [residual |-> <<>>, ring |-> <<>>, collecting |-> FALSE,
           current |-> <<>>, post_silence |-> 0]

VadIdle ==
    /\ vad = VadNew
    /\ vpat = <<>>
    /\ vpos = 0
    /\ vout = <<>>

\* Optional[datetime] without a value (parse_line: ts = None)
NoTime == -1
\* no Snippet returned yet
NoSnip == [raised |-> FALSE, done |-> FALSE]

WinIdle ==
    /\ wlines = <<>>
    /\ wng = 0
    /\ wcfg = [min_sec |-> 1, max_sec |-> 1, max_tokens |-> 1]
    /\ snip = NoSnip

\* the worker holds no job
NoJob == [jid |-> 0, lines |-> <<>>, ng_index |-> 0, ng_word |-> "", severity |-> 0]
\* ghost record of a job not yet enqueued
NoJobSt == [taken |-> 0, fails |-> 0, st |-> "none"]
Jids == 1..MaxLogLen

LlmIdle ==
    /\ kwfile = [form |-> "missing", entries |-> <<>>]
    /\ today = <<>>
    /\ seen_count = 0
    /\ q = <<>>
    /\ lw = [pc |-> "get", job |-> NoJob, attempt |-> 0, snip |-> NoSnip]
    /\ summaries = <<>>
    /\ errlog = <<>>
    /\ errfile = [i \in 0..(MaxLogLen - 1) |-> 0]
    /\ jobst = [j \in Jids |-> NoJobSt]
    /\ cancelled = FALSE

\* SDInput.__init__ and main before line 176
SdNew ==
    /\ sdin = [stream |-> "none", buf |-> 0, ts |-> 0]
    /\ sdlock = "free"
    /\ sdmain = [pc |-> "e_stop", ctx |-> "initial", exit |-> "none", restarts |-> 0]
    /\ sdcb = "idle"
    /\ ens = [trace |-> <<>>, res |-> "running"]
    /\ pool = "none"
    /\ sacc = {}
    /\ wr = [buf |-> {}, ts |-> {}]

SdIdle == sdcfg = [fallback |-> FALLBACK_TO_DEFAULT, device |-> "none"] /\ SdNew

\* no FuzzyKWS.detect call made yet
NoHits == [done |-> FALSE, hits |-> <<>>]

KwsIdle ==
    /\ fkws = [keywords |-> <<>>, keywords_hira |-> <<>>, threshold |-> 100,
              min_hira_len |-> 1, kakasi |-> "ok"]
    /\ ktext = <<>>
    /\ khits = NoHits

SmThreads == 1..NThreads
\* a thread outside every StatusManager call
SmOut == [op |-> "none", pc |-> "out", arg |-> "IDLE", ret |-> "IDLE",
          seen |-> "IDLE", res |-> FALSE, done |-> FALSE]

\* StatusManager.__init__
SmNew ==
    /\ sm = [status |-> "IDLE", lock |-> 0]
    /\ smt = [t \in SmThreads |-> SmOut]
    /\ smg = [last |-> "IDLE", set |-> {}]

SmIdle == SmNew

\* no purge_date run made yet
NoPurge == [op |-> "none", before |-> <<>>, expired |-> FALSE, keep |-> {}]

PgIdle ==
    /\ plog = [exists |-> FALSE, lines |-> <<>>, mtime |-> 0]
    /\ psum = <<>>
    /\ pclock = 0
    /\ pev = NoPurge

\* SDInput.__init__, lines 56-62: an empty deque, nothing arrived or returned
BufNew == [buf |-> <<>>, lock |-> "free", cb |-> "idle", pop |-> "idle",
           chunks |-> <<>>, arrived |-> 0, ret |-> <<>>, evicted |-> {}, pops |-> 0]

\* summarize lines 113-113: the call has been entered, attempt = 0
GemNew == [pc |-> "call", attempt |-> 0, calls |-> 0, sleeps |-> <<>>,
           last |-> "none", data |-> "none"]

\* no log file written, the watcher not started
DwNew == [clock |-> 0, files |-> <<<<>>, <<>>>>, started |-> FALSE, date |-> 0,
          seen_count |-> 0, q |-> <<>>, passes |-> 0]

\* rt_stream.py line 66: _ID_COUNTER = 0, no id handed out
IdsNew == [counter |-> 0, first |-> 0, issued |-> <<>>]

ExtIdle == sbuf = BufNew /\ gem = GemNew /\ dw = DwNew /\ ids = IdsNew

AuxIdle == KwsIdle /\ SmIdle /\ PgIdle /\ ExtIdle

Init ==
    /\ cfg \in [finalOnHitOnly : BOOLEAN]
    /\ PipeStart
    /\ VadIdle
    /\ WinIdle
    /\ LlmIdle
    /\ SdIdle
    /\ AuxIdle

(* ------------------ main thread: rt_stream.main ----------------------- *)
\* line 176: the first _ensure_input_started(), outside the try block
StartInput(res) ==
    /\ pc = "start"
    /\ LET r == _ensure_input_started(res, FALLBACK_TO_DEFAULT) IN
       /\ pc' = IF r.ok THEN "loop" ELSE "exited"
       /\ exitCause' = IF r.ok THEN "none" ELSE "initial_start_failed"
       /\ ev' = Ev0(IF r.ok THEN "started" ELSE "start_failed")
    /\ UNCHANGED <<cfg, now, log, _ID_COUNTER, batch, cur, queue, fut, wk, cb,
                   nUtt, run>>
    /\ UNCHANGED offPipe

\* what becomes of the loop after _ensure_input_started() at line 191
AfterRestart(r) ==
    IF r.ok THEN [pc |-> "loop", cause |-> "none"]
    ELSE [pc |-> "exited", cause |-> "restart_failed"]

\* lines 184-192: the source is inactive or silent for too long: restart it
PollRestart(active, stale, res) ==
    /\ pc = "loop"
    /\ batch = 0
    /\ (~active) \/ stale
    /\ LET r == _ensure_input_started(res, FALLBACK_TO_DEFAULT)
           a == AfterRestart(r)
       IN
       /\ pc' = a.pc
       /\ exitCause' = a.cause
       /\ ev' = Ev("restart", 0, NoId, "", <<>>, 0, ~r.ok, FALSE, FALSE)
    /\ UNCHANGED <<cfg, now, log, _ID_COUNTER, batch, cur, queue, fut, wk, cb,
                   nUtt, run>>
    /\ UNCHANGED offPipe

\* lines 194-198: pop_all and vad.feed, which returns n utterances
PollFeed(n) ==
    /\ pc = "loop"
    /\ batch = 0
    /\ n <= MaxUtt - nUtt
    /\ batch' = n
    /\ ev' = Ev0("poll")
    /\ UNCHANGED <<cfg, now, log, _ID_COUNTER, pc, cur, queue, fut, wk, cb,
                   nUtt, run, exitCause>>
    /\ UNCHANGED offPipe

\* faulty variant: the hallucination filter is applied after the FAST line is written
FastOutcome_FilterLate(text, failAt, onHitOnly) ==
    IF failAt = "transcribe"
    THEN [op |-> "utt_exception", detected |-> FALSE, idTaken |-> FALSE,
          logged |-> FALSE, submit |-> FALSE]
    ELSE IF failAt \in {"detect", "append"}
    THEN [op |-> "utt_exception", detected |-> TRUE, idTaken |-> failAt = "append",
          logged |-> FALSE, submit |-> FALSE]
    ELSE [op |-> IF is_banned(text) THEN "fast_banned" ELSE "fast_logged",
          detected |-> TRUE, idTaken |-> TRUE, logged |-> TRUE,
          submit |-> (~is_banned(text)) /\ NeedFinal(onHitOnly, detect(text))]

\* faulty variant: a failed log write is swallowed and the FINAL pass is submitted
FastOutcome_SubmitUnlogged(text, failAt, onHitOnly) ==
    IF failAt = "transcribe"
    THEN [op |-> "utt_exception", detected |-> FALSE, idTaken |-> FALSE,
          logged |-> FALSE, submit |-> FALSE]
    ELSE IF is_banned(text)
    THEN [op |-> "fast_banned", detected |-> FALSE, idTaken |-> FALSE,
          logged |-> FALSE, submit |-> FALSE]
    ELSE IF failAt = "detect"
    THEN [op |-> "utt_exception", detected |-> TRUE, idTaken |-> FALSE,
          logged |-> FALSE, submit |-> FALSE]
    ELSE [op |-> "fast_logged", detected |-> TRUE, idTaken |-> TRUE,
          logged |-> failAt # "append", submit |-> NeedFinal(onHitOnly, detect(text))]

\* lines 205-234 for one utterance whose FAST text is `text`; failAt names the
\* call that raises, if any
FastOutcome(text, failAt, onHitOnly) ==
    IF failAt = "transcribe"
    THEN [op |-> "utt_exception", detected |-> FALSE, idTaken |-> FALSE,
          logged |-> FALSE, submit |-> FALSE]
    ELSE IF is_banned(text)
    THEN [op |-> "fast_banned", detected |-> FALSE, idTaken |-> FALSE,
          logged |-> FALSE, submit |-> FALSE]
    ELSE IF failAt = "detect"
    THEN [op |-> "utt_exception", detected |-> TRUE, idTaken |-> FALSE,
          logged |-> FALSE, submit |-> FALSE]
    ELSE IF failAt = "append"
    THEN [op |-> "utt_exception", detected |-> TRUE, idTaken |-> TRUE,
          logged |-> FALSE, submit |-> FALSE]
    ELSE [op |-> "fast_logged", detected |-> TRUE, idTaken |-> TRUE,
          logged |-> TRUE, submit |-> NeedFinal(onHitOnly, detect(text))]

\* faulty variant: the exception leaves the for loop and the while loop
AfterUttException_Propagate(n) == [pc |-> "exited", batch |-> 0, cause |-> "utt_exception"]

\* the except clause of lines 257-259: where the main thread goes after an
\* exception raised while handling one utterance
AfterUttException(n) == [pc |-> "loop", batch |-> n - 1, cause |-> "none"]

HandleFast(text, failAt) ==
    /\ pc = "loop"
    /\ batch > 0
    /\ LET o == FastOutcome(text, failAt, cfg.finalOnHitOnly)
           uid == nUtt + 1
           c == IF o.idTaken THEN _next_entry_id(_ID_COUNTER) ELSE _ID_COUNTER
           eid == Fmt6(c)
           hits == detect(text)
           d == DateOf(now)
           x == AfterUttException(batch)
       IN
       /\ nUtt' = uid
       /\ _ID_COUNTER' = c
       /\ log' = IF o.logged
                 THEN [log EXCEPT ![d] = _append_log_line(@, now, "customer", "FAST", eid, text, hits, uid)]
                 ELSE log
       /\ IF o.submit
          THEN /\ pc' = "submit"
               /\ cur' = [uid |-> uid, eid |-> eid, logged |-> o.logged]
               /\ UNCHANGED <<batch, exitCause>>
          ELSE IF o.op = "utt_exception"
          THEN /\ pc' = x.pc
               /\ batch' = x.batch
               /\ exitCause' = x.cause
               /\ cur' = NoCur
          ELSE /\ batch' = batch - 1
               /\ UNCHANGED <<pc, cur, exitCause>>
       /\ ev' = Ev(o.op, uid, IF o.idTaken THEN eid ELSE NoId,
                   IF failAt = "transcribe" THEN "" ELSE text,
                   IF o.detected /\ failAt # "detect" THEN hits ELSE <<>>, d,
                   o.op = "utt_exception", o.detected, FALSE)
    /\ UNCHANGED <<cfg, now, queue, fut, wk, cb, run>>
    /\ UNCHANGED offPipe

\* line 235: asr.submit_final; ok = FALSE when it raises
SubmitFinal(ok) ==
    /\ pc = "submit"
    /\ IF ok
       THEN /\ fut' = [fut EXCEPT ![cur.uid] =
                          [state |-> "pending", eid |-> cur.eid, res |-> "", attached |-> FALSE,
                           logged |-> cur.logged]]
            /\ queue' = Append(queue, cur.uid)
            /\ pc' = "attach"
            /\ ev' = EvU("submitted", cur.uid, cur.eid)
            /\ UNCHANGED <<batch, cur, exitCause>>
       ELSE LET x == AfterUttException(batch) IN
            /\ pc' = x.pc
            /\ batch' = x.batch
            /\ exitCause' = x.cause
            /\ cur' = NoCur
            /\ ev' = Ev("utt_exception", cur.uid, cur.eid, "", <<>>, 0, TRUE, FALSE, FALSE)
            /\ UNCHANGED <<fut, queue>>
    /\ UNCHANGED <<cfg, now, log, _ID_COUNTER, wk, cb, nUtt, run>>
    /\ UNCHANGED offPipe

\* faulty variant: the exception of the FINAL pass is replaced by an empty text
OnDoneText_NoMarker(res) == IF res = "raise" THEN "" ELSE res

\* lines 238-241: the text _on_done goes on with
OnDoneText(res) == IF res = "raise" THEN FINAL_ERROR ELSE res

\* faulty variant: no hallucination filter at the FINAL stage
FinalRejected_Never(final_text) == FALSE

\* line 243: the FINAL text is dropped by the hallucination filter
FinalRejected(final_text) == is_banned(final_text)

\* the _on_done activation for a finished future
NewCb(uid, f) ==
    [st |-> "read", uid |-> uid, eid |-> f.eid,
     text |-> OnDoneText(f.res),
     hits |-> <<>>, err |-> f.res = "raise", day |-> 0, snap |-> <<>>]

\* line 256: fut.add_done_callback(_on_done); a future that is already done
\* runs the callback at once, in the calling thread
AttachCallback ==
    /\ pc = "attach"
    /\ IF fut[cur.uid].state = "done"
       THEN /\ cb' = [cb EXCEPT ![0] = NewCb(cur.uid, fut[cur.uid])]
            /\ pc' = "callback"
            /\ UNCHANGED <<fut, batch, cur>>
       ELSE /\ fut' = [fut EXCEPT ![cur.uid].attached = TRUE]
            /\ pc' = "loop"
            /\ batch' = batch - 1
            /\ cur' = NoCur
            /\ UNCHANGED cb
    /\ ev' = EvU("attached", cur.uid, cur.eid)
    /\ UNCHANGED <<cfg, now, log, _ID_COUNTER, queue, wk, nUtt, run, exitCause>>
    /\ UNCHANGED offPipe

\* KeyboardInterrupt in the loop: lines 261-265
Interrupt ==
    /\ pc = "loop"
    /\ pc' = "exited"
    /\ exitCause' = "interrupt"
    /\ batch' = 0
    /\ ev' = Ev0("interrupt")
    /\ UNCHANGED <<cfg, now, log, _ID_COUNTER, cur, queue, fut, wk, cb, nUtt, run>>
    /\ UNCHANGED offPipe

(* --------------------- _on_done, in thread t -------------------------- *)
\* the thread leaves _on_done
CbReturn(t) ==
    /\ cb' = [cb EXCEPT ![t] = NoCb]
    /\ IF t = 0
       THEN /\ pc' = "loop"
            /\ batch' = batch - 1
            /\ cur' = NoCur
            /\ UNCHANGED wk
       ELSE /\ wk' = [wk EXCEPT ![t] = 0]
            /\ UNCHANGED <<pc, batch, cur>>

\* lines 238-247 and 81-97: result, filter, detect, then read the day file
CbRead(t) ==
    /\ cb[t].st = "read"
    /\ LET c == cb[t]
           d == DateOf(now)
           hits == detect(c.text)
           i == FirstMatch(log[d], "customer", c.eid)
       IN
       IF FinalRejected(c.text)
       THEN /\ CbReturn(t)
            /\ ev' = Ev("final_banned", c.uid, c.eid, c.text, <<>>, d, c.err, FALSE, FALSE)
       ELSE /\ cb' = [cb EXCEPT ![t] =
                        [c EXCEPT !.st = IF i = 0 THEN "append" ELSE "write",
                                  !.hits = hits,
                                  !.day = d,
                                  !.snap = _replace_log_line(log[d], c.eid, "customer",
                                                             "FINAL", c.text, hits, c.uid)]]
            /\ ev' = Ev("final_read", c.uid, c.eid, c.text, hits, d, c.err, TRUE, FALSE)
            /\ UNCHANGED <<pc, batch, cur, wk>>
    /\ UNCHANGED <<cfg, now, log, _ID_COUNTER, queue, fut, nUtt, run, exitCause>>
    /\ UNCHANGED offPipe

\* faulty variant: the warning is played for every FINAL result
PlayWarning_Always(final_hits) == TRUE

\* lines 251-253: the warning is played on a confirmed hit
PlayWarning(final_hits) == final_hits # <<>>

\* lines 98-99: write the day file back
CbWrite(t) ==
    /\ cb[t].st = "write"
    /\ LET c == cb[t] IN
       /\ log' = [log EXCEPT ![c.day] = c.snap]
       /\ ev' = Ev("final_replaced", c.uid, c.eid, c.text, c.hits, c.day, c.err,
                   FALSE, PlayWarning(c.hits))
    /\ CbReturn(t)
    /\ UNCHANGED <<cfg, now, _ID_COUNTER, queue, fut, nUtt,
                   run, exitCause>>
    /\ UNCHANGED offPipe

\* lines 249-250: nothing was replaced, append instead
CbAppend(t) ==
    /\ cb[t].st = "append"
    /\ LET c == cb[t]
           d == DateOf(now)
       IN
       /\ log' = [log EXCEPT ![d] = _append_log_line(@, now, "customer", "FINAL", c.eid,
                                                      c.text, c.hits, c.uid)]
       /\ ev' = Ev("final_appended", c.uid, c.eid, c.text, c.hits, d, c.err,
                   FALSE, PlayWarning(c.hits))
    /\ CbReturn(t)
    /\ UNCHANGED <<cfg, now, _ID_COUNTER, queue, fut, nUtt,
                   run, exitCause>>
    /\ UNCHANGED offPipe

(* ------------------- FINAL executor threads --------------------------- *)
WorkerTake(w) ==
    /\ wk[w] = 0
    /\ cb[w].st = "none"
    /\ queue # <<>>
    /\ wk' = [wk EXCEPT ![w] = Head(queue)]
    /\ queue' = Tail(queue)
    /\ fut' = [fut EXCEPT ![Head(queue)].state = "running"]
    /\ ev' = EvU("final_started", Head(queue), fut[Head(queue)].eid)
    /\ UNCHANGED <<cfg, now, log, _ID_COUNTER, pc, batch, cur, cb, nUtt, run, exitCause>>
    /\ UNCHANGED offPipe

\* _run returns res, or raises (res = "raise"); the future completes and its
\* callbacks run in this thread
WorkerFinish(w, res) ==
    /\ wk[w] # 0
    /\ cb[w].st = "none"
    /\ LET u == wk[w]
           f == [fut[u] EXCEPT !.state = "done", !.res = res]
       IN
       /\ fut' = [fut EXCEPT ![u] = f]
       /\ IF fut[u].attached
          THEN /\ cb' = [cb EXCEPT ![w] = NewCb(u, f)]
               /\ UNCHANGED wk
          ELSE /\ wk' = [wk EXCEPT ![w] = 0]
               /\ UNCHANGED cb
       /\ ev' = Ev("final_result", u, f.eid, res, <<>>, 0, res = "raise", FALSE, FALSE)
    /\ UNCHANGED <<cfg, now, log, _ID_COUNTER, pc, batch, cur, queue, nUtt, run, exitCause>>
    /\ UNCHANGED offPipe

(* --------------------------- environment ------------------------------ *)
Tick ==
    /\ now < MaxClock
    /\ now' = now + 1
    /\ ev' = Ev0("tick")
    /\ UNCHANGED <<cfg, log, _ID_COUNTER, pc, batch, cur, queue, fut, wk, cb,
                   nUtt, run, exitCause>>
    /\ UNCHANGED offPipe

\* the process has ended (executor threads are joined at interpreter exit)
\* and is started again: module state is fresh, the day files remain
ProcessStart ==
    /\ pc = "exited"
    /\ run < MaxRuns
    /\ queue = <<>>
    /\ \A w \in Workers : wk[w] = 0 /\ cb[w].st = "none"
    /\ run' = run + 1
    /\ _ID_COUNTER' = 0
    /\ pc' = "start"
    /\ batch' = 0
    /\ cur' = NoCur
    /\ fut' = [u \in Uids |-> NoFut]
    /\ exitCause' = "none"
    /\ ev' = Ev0("process_start")
    /\ UNCHANGED <<cfg, now, log, queue, wk, cb, nUtt>>
    /\ UNCHANGED offPipe

(* ---------------- WebRTCVADSegmenter (src/vad/webrtc.py) --------------- *)
\* the audio stream is the bytes 1..NFrames * FrameBytes; frame k is made of
\* the bytes (k-1) * FrameBytes + 1 .. k * FrameBytes
StreamBytes == NFrames * FrameBytes
FrameNo(frame) == ((frame[1] - 1) \div FrameBytes) + 1

\* lines 66-80: the per-frame classifier, here read off the stream's pattern
is_speech(frame, pat) == pat[FrameNo(frame)]

\* deque(maxlen=n).append
RingAppend(ring, x, maxlen) ==
    IF Len(ring) < maxlen THEN Append(ring, x)
    ELSE Append(Tail(ring), x)

\* list(ring)[-n:]
LastN(xs, n) == IF Len(xs) <= n THEN xs ELSE SubSeq(xs, Len(xs) - n + 1, Len(xs))

\* b"".join(frames)
RECURSIVE Join(_)
Join(frames) == IF frames = <<>> THEN <<>> ELSE Head(frames) \o Join(Tail(frames))

\* faulty variant: the frames of the closed utterance stay in the buffer
_reset_collect_KeepCurrent(v) == [v EXCEPT !.collecting = FALSE, !.post_silence = 0]

\* _reset_collect, lines 110-113
_reset_collect(v) == [v EXCEPT !.collecting = FALSE, !.current = <<>>, !.post_silence = 0]

\* lines 82-106: one frame through the state machine; out holds the utterance
\* this frame completes, if any
VadFrame(v, frame, speech) ==
    LET ring == RingAppend(v.ring, <<frame, speech>>, PrevFrames + PostFrames)
        v1 == [v EXCEPT !.ring = ring]
    IN
    IF speech
    THEN LET past == [i \in 1..Len(LastN(ring, PrevFrames)) |-> LastN(ring, PrevFrames)[i][1]]
             v2 == IF ~v1.collecting
                   THEN [v1 EXCEPT !.current = @ \o past, !.collecting = TRUE,
                                   !.post_silence = 0]
                   ELSE v1
             v3 == [v2 EXCEPT !.current = Append(@, frame)]
         IN
         IF Len(v3.current) >= MaxFrames
         THEN [v |-> _reset_collect(v3), out |-> <<Join(v3.current)>>]
         ELSE [v |-> v3, out |-> <<>>]
    ELSE IF v1.collecting
         THEN LET v2 == [v1 EXCEPT !.post_silence = @ + 1] IN
              IF v2.post_silence <= PostFrames
              THEN [v |-> [v2 EXCEPT !.current = Append(@, frame)], out |-> <<>>]
              ELSE [v |-> _reset_collect(v2), out |-> <<Join(v2.current)>>]
         ELSE [v |-> v1, out |-> <<>>]

\* lines 62-64 and 108: the while loop over the complete frames of the residual
RECURSIVE FeedLoop(_, _, _)
FeedLoop(v, out, pat) ==
    IF Len(v.residual) >= FrameBytes
    THEN LET frame == SubSeq(v.residual, 1, FrameBytes)
             rest == SubSeq(v.residual, FrameBytes + 1, Len(v.residual))
             r == VadFrame([v EXCEPT !.residual = rest], frame, is_speech(frame, pat))
         IN FeedLoop(r.v, out \o r.out, pat)
    ELSE [v |-> v, out |-> out]

\* faulty variant: bytes left over from the previous call are discarded
feed_NoResidual(v, pcm16_bytes, pat) ==
    IF pcm16_bytes = <<>> THEN [v |-> v, out |-> <<>>]
    ELSE FeedLoop([v EXCEPT !.residual = pcm16_bytes], <<>>, pat)

\* WebRTCVADSegmenter.feed
feed(v, pcm16_bytes, pat) ==
    IF pcm16_bytes = <<>> THEN [v |-> v, out |-> <<>>]
    ELSE FeedLoop([v EXCEPT !.residual = @ \o pcm16_bytes], <<>>, pat)

\* one vad.feed call with the next n bytes of the stream
Feed(n) ==
    /\ vpat # <<>>
    /\ vpos + n <= StreamBytes
    /\ LET r == feed(vad, [i \in 1..n |-> vpos + i], vpat) IN
       /\ vad' = r.v
       /\ vout' = vout \o r.out
    /\ vpos' = vpos + n
    /\ UNCHANGED vpat
    /\ UNCHANGED <<pipeVars, offVad>>

VadInit ==
    /\ cfg = [finalOnHitOnly |-> TRUE]
    /\ PipeStart
    /\ vad = VadNew
    /\ vpat \in [1..NFrames -> BOOLEAN]
    /\ vpos = 0
    /\ vout = <<>>
    /\ WinIdle
    /\ LlmIdle
    /\ SdIdle
    /\ AuxIdle

VadNext == \E n \in 0..MaxChunk : Feed(n)

SpecVad == VadInit /\ [][VadNext]_vars

(* ------------------- build_window (src/llm/windowing.py) -------------- *)
\* a parsed log line is [ts, len, idx]: its timestamp in seconds (or NoTime),
\* the length of its text, and its index in the log (0-based, as in the code)
SetMax(S) == CHOOSE x \in S : \A y \in S : y <= x
SetMin(S) == CHOOSE x \in S : \A y \in S : x <= y

\* lines 75-81 (parsed[a:b+1] is empty when a > b)
window_duration(parsed, a, b) ==
    LET times == {parsed[i + 1].ts : i \in a..b} \ {NoTime} IN
    IF times = {} THEN (b - a + 1) * 3
    ELSE SetMax(times) - SetMin(times)

\* estimate_tokens_ja on a text of n characters: max(1, int(n * 0.66))
estimate_tokens_ja(n) == IF (n * 66) \div 100 >= 1 THEN (n * 66) \div 100 ELSE 1

RECURSIVE TextLen(_, _, _)
TextLen(parsed, a, b) ==
    IF a > b THEN 0 ELSE parsed[a + 1].len + TextLen(parsed, a + 1, b)

\* lines 95-97
tokens_in(parsed, a, b) == estimate_tokens_ja(TextLen(parsed, a, b))

\* lines 84-92: the expansion loop
RECURSIVE Expand(_, _, _, _)
Expand(parsed, lo, hi, min_sec) ==
    IF window_duration(parsed, lo, hi) >= min_sec THEN [lo |-> lo, hi |-> hi]
    ELSE LET lo1 == IF lo > 0 THEN lo - 1 ELSE lo IN
         IF lo > 0 /\ window_duration(parsed, lo1, hi) >= min_sec
         THEN [lo |-> lo1, hi |-> hi]
         ELSE LET hi1 == IF hi < Len(parsed) - 1 THEN hi + 1 ELSE hi IN
              IF lo1 = 0 /\ hi1 = Len(parsed) - 1 THEN [lo |-> lo1, hi |-> hi1]
              ELSE Expand(parsed, lo1, hi1, min_sec)

\* faulty variant: the contraction always drops the last line
Shrink_HiOnly(ng_index, lo, hi) == [lo |-> lo, hi |-> hi - 1]

\* lines 102-105 and 109-112: drop a line from the side with more lines
Shrink(ng_index, lo, hi) ==
    IF (ng_index - lo) > (hi - ng_index) THEN [lo |-> lo + 1, hi |-> hi]
    ELSE [lo |-> lo, hi |-> hi - 1]

\* faulty variant: the time cap is not applied
ContractTime_None(parsed, ng_index, lo, hi, max_sec) == [lo |-> lo, hi |-> hi]

\* lines 100-105: the time cap
RECURSIVE ContractTime(_, _, _, _, _)
ContractTime(parsed, ng_index, lo, hi, max_sec) ==
    IF window_duration(parsed, lo, hi) > max_sec /\ (hi - lo) >= 1
    THEN LET w == Shrink(ng_index, lo, hi) IN
         ContractTime(parsed, ng_index, w.lo, w.hi, max_sec)
    ELSE [lo |-> lo, hi |-> hi]

\* lines 108-112: the token cap
RECURSIVE ContractTokens(_, _, _, _, _)
ContractTokens(parsed, ng_index, lo, hi, max_tokens) ==
    IF tokens_in(parsed, lo, hi) > max_tokens /\ (hi - lo) >= 1
    THEN LET w == Shrink(ng_index, lo, hi) IN
         ContractTokens(parsed, ng_index, w.lo, w.hi, max_tokens)
    ELSE [lo |-> lo, hi |-> hi]

\* build_window; parsed[ng_index] at line 114 raises IndexError when the
\* index is not a line of the log.  expanded and capped are the bounds after
\* the expansion loop and after the time cap.
build_window(parsed, ng_index, min_sec, max_sec, max_tokens) ==
    IF ng_index >= Len(parsed) THEN [raised |-> TRUE, done |-> TRUE]
    ELSE
    LET lo0 == IF ng_index - 2 >= 0 THEN ng_index - 2 ELSE 0
        hi0 == IF Len(parsed) - 1 <= ng_index + 2 THEN Len(parsed) - 1 ELSE ng_index + 2
        e == Expand(parsed, lo0, hi0, min_sec)
        t == ContractTime(parsed, ng_index, e.lo, e.hi, max_sec)
        k == ContractTokens(parsed, ng_index, t.lo, t.hi, max_tokens)
    IN [raised |-> FALSE, done |-> TRUE,
        anchor_time |-> parsed[ng_index + 1].ts,
        turns |-> SubSeq(parsed, k.lo + 1, k.hi + 1),
        lo_index |-> k.lo, hi_index |-> k.hi,
        expanded |-> e, capped |-> t]

\* a log whose lines are one second apart
UniformLog(n, len) == [i \in 1..n |-> [ts |-> i - 1, len |-> len, idx |-> i - 1]]
\* a log with the given timestamps
AnyLog(ts, len) == [i \in 1..Len(ts) |-> [ts |-> ts[i], len |-> len, idx |-> i - 1]]

TsSeqs == UNION {[1..n -> {NoTime} \cup 0..MaxTs] : n \in 1..MaxLines}

WinInit ==
    /\ cfg = [finalOnHitOnly |-> TRUE]
    /\ PipeStart
    /\ VadIdle
    /\ \E len \in 1..MaxLineLen :
          \/ \E n \in 1..MaxUniform : wlines = UniformLog(n, len)
          \/ \E ts \in TsSeqs : wlines = AnyLog(ts, len)
    /\ wng \in 0..(Len(wlines) - 1)
    /\ \E mn \in 1..MaxSec, mx \in 1..MaxSec, tk \in {2, 512} :
          wcfg = [min_sec |-> mn, max_sec |-> mx, max_tokens |-> tk]
    /\ snip = NoSnip
    /\ LlmIdle
    /\ SdIdle
    /\ AuxIdle

\* one call of build_window
BuildWindow ==
    /\ ~snip.done
    /\ wlines # <<>>
    /\ snip' = build_window(wlines, wng, wcfg.min_sec, wcfg.max_sec, wcfg.max_tokens)
    /\ UNCHANGED <<wlines, wng, wcfg>>
    /\ UNCHANGED offWin

WinNext == BuildWindow

SpecWin == WinInit /\ [][WinNext]_vars

(* ---- summarization: scripts/llm_worker.py, src/llm/queue.py, -------- *)
(* ---- src/llm/client_gemini.py, src/kws/keywords.py ------------------- *)
Words == {"dogeza", "shine"}
Levels == 0..MaxLevel

\* keywords, in order of first occurrence (keywords.py lines 82-83, 94-95)
RECURSIVE Dedup(_, _)
Dedup(ws, acc) ==
    IF ws = <<>> THEN acc
    ELSE IF \E i \in 1..Len(acc) : acc[i] = Head(ws) THEN Dedup(Tail(ws), acc)
         ELSE Dedup(Tail(ws), Append(acc, Head(ws)))

\* sev_map[w] = sev of the last entry for w (line 84)
LastSev(entries, w) ==
    LET I == {i \in 1..Len(entries) : entries[i].w = w} IN
    entries[SetMax(I)].sev

\* load_keywords_with_severity: a missing file gives the defaults, a file with
\* level blocks gives each word its block's level, a file of plain lines
\* gives every word severity 2
load_keywords_with_severity(file) ==
    IF file.form = "missing"
    THEN [keywords |-> <<"dogeza", "munou", "shine">>,
          sev_map |-> [w \in {"dogeza", "munou", "shine"} |-> SEVERITY_PLAIN]]
    ELSE LET ws == [i \in 1..Len(file.entries) |-> file.entries[i].w]
             kws == Dedup(ws, <<>>)
         IN [keywords |-> kws,
             sev_map |-> [w \in {ws[i] : i \in 1..Len(ws)} |->
                            IF file.form = "levels" THEN LastSev(file.entries, w)
                            ELSE SEVERITY_PLAIN]]

KwFiles ==
    {[form |-> "missing", entries |-> <<>>]}
    \cup {[form |-> "levels", entries |-> e] :
            e \in UNION {[1..n -> [sev : Levels, w : Words]] : n \in 1..MaxKw}}
    \cup {[form |-> "plain", entries |-> e] :
            e \in UNION {[1..n -> [sev : {SEVERITY_PLAIN}, w : Words]] : n \in 1..MaxKw}}

\* find_ng_indices (llm_worker.py lines 35-45), 0-based
find_ng_indices(lines, keywords) ==
    {i \in 0..(Len(lines) - 1) :
        \/ lines[i + 1].ng
        \/ \E k \in 1..Len(keywords) : keywords[k] \in lines[i + 1].words}

\* line 77: next((k for k in keywords if k in txt), "NG")
FirstKeyword(keywords, txt) ==
    LET K == {k \in 1..Len(keywords) : keywords[k] \in txt} IN
    IF K = {} THEN "NG" ELSE keywords[SetMin(K)]

\* line 78: severity_map.get(ng_word, 3)
SeverityOf(sev_map, ng_word) ==
    IF ng_word \in DOMAIN sev_map THEN sev_map[ng_word] ELSE SEVERITY_UNKNOWN_WORD

\* lines 75-79: the Job for line idx
MkJob(lines, idx, kw) ==
    LET ng_word == FirstKeyword(kw.keywords, lines[idx + 1].words) IN
    [jid |-> idx + 1, lines |-> lines, ng_index |-> idx, ng_word |-> ng_word,
     severity |-> SeverityOf(kw.sev_map, ng_word)]

\* the jobs for a set of indices, in ascending order
RECURSIVE JobsFor(_, _, _)
JobsFor(lines, idxs, kw) ==
    IF idxs = {} THEN <<>>
    ELSE <<MkJob(lines, SetMin(idxs), kw)>> \o JobsFor(lines, idxs \ {SetMin(idxs)}, kw)

LlmInit ==
    /\ cfg = [finalOnHitOnly |-> TRUE]
    /\ PipeStart
    /\ VadIdle
    /\ WinIdle
    /\ SdIdle
    /\ AuxIdle
    /\ kwfile \in KwFiles
    /\ today = <<>>
    /\ seen_count = 0
    /\ q = <<>>
    /\ lw = [pc |-> "get", job |-> NoJob, attempt |-> 0, snip |-> NoSnip]
    /\ summaries = <<>>
    /\ errlog = <<>>
    /\ errfile = [i \in 0..(MaxLogLen - 1) |-> 0]
    /\ jobst = [j \in Jids |-> NoJobSt]
    /\ cancelled = FALSE

offLlm == <<pipeVars, vadVars, winVars, sdVars, auxVars>>

\* the real-time pipeline appends a line to today's log
LogAppend(ng, words) ==
    /\ Len(today) < MaxLogLen
    /\ today' = Append(today, [ng |-> ng, words |-> words, ts |-> Len(today),
                               len |-> 1, idx |-> Len(today), stage |-> "FAST"])
    /\ UNCHANGED <<kwfile, seen_count, q, lw, summaries, errlog, errfile, jobst, cancelled>>
    /\ UNCHANGED offLlm

\* lines 67-71: the lines the watcher gets from the day file; a read that
\* raises is suppressed and leaves the empty list
ReadLines(read) == IF read = "ok" THEN today ELSE <<>>

\* watch_today lines 66-82: one pass of the loop (Queue.put on an unbounded
\* queue does not suspend, so the pass runs up to the sleep without a switch)
WatchPoll(read) ==
    /\ ~cancelled
    /\ LET kw == load_keywords_with_severity(kwfile)
           lines == ReadLines(read)
           ng_idxs == {i \in find_ng_indices(lines, kw.keywords) : i >= seen_count}
           jobs == JobsFor(lines, ng_idxs, kw)
       IN
       /\ ng_idxs # {} \/ seen_count # Len(lines)
       /\ q' = q \o jobs
       /\ jobst' = [j \in Jids |-> IF j - 1 \in ng_idxs
                                   THEN [jobst[j] EXCEPT !.st = "queued"] ELSE jobst[j]]
       /\ seen_count' = Len(lines)
    /\ UNCHANGED <<kwfile, today, lw, summaries, errlog, errfile, cancelled>>
    /\ UNCHANGED offLlm

\* faulty variant: the failure is swallowed without a record
_write_error_Nothing(job, elog, efile) == [errlog |-> elog, errfile |-> efile]

\* LLMJobRunner._write_error: the per-job file is (re)written, the per-day
\* file is appended to
_write_error(job, elog, efile) ==
    [errlog |-> Append(elog, [idx |-> job.ng_index, jid |-> job.jid]),
     errfile |-> [efile EXCEPT ![job.ng_index] = job.jid]]

\* faulty variant: the exception of a failed job ends the worker
worker_after_Raise(outcome) == IF outcome = "error" THEN "dead" ELSE "get"

\* worker lines 65-76: after the save, or after the except clause, the loop
\* goes back to q.get
worker_after(outcome) == "get"

\* faulty variant: gives up one failure early
GiveUp_Early(attempt) == attempt >= max_retries

\* summarize line 146
GiveUp(attempt) == attempt > max_retries

\* _process line 119
persisted_severity(job, res) ==
    IF job.severity # 0 THEN job.severity ELSE SEVERITY_UNSET

\* _process lines 108-128: the record of a summarized job
MkRecord(job, sn, res) ==
    [jid |-> job.jid,
     anchor_time |-> sn.anchor_time,
     ng_word |-> IF job.ng_word # "" THEN job.ng_word ELSE res.ng_word,
     severity |-> persisted_severity(job, res),
     line_range |-> <<sn.lo_index, sn.hi_index>>]

\* what generate_content plus the parsing of lines 122-142 can give: a result
\* (severity clipped to 1..2 by _ResultAdapter) or an exception
BackendResults ==
    [ok : {TRUE}, severity : {1, 2}, ng_word : {"dogeza", "other"}]
    \cup {[ok |-> FALSE, severity |-> 0, ng_word |-> ""]}

\* the worker's state after the job in hand failed with an exception
JobFailed(job) ==
    LET w == _write_error(job, errlog, errfile) IN
    /\ errlog' = w.errlog
    /\ errfile' = w.errfile
    /\ summaries' = summaries
    /\ lw' = [pc |-> worker_after("error"), job |-> NoJob, attempt |-> 0, snip |-> NoSnip]

\* worker line 66 and _process lines 80-101, up to the first await of summarize
WorkerGet ==
    /\ ~cancelled
    /\ lw.pc = "get"
    /\ q # <<>>
    /\ LET job == Head(q)
           sn == build_window(job.lines, job.ng_index, WIN_MIN_SEC, WIN_MAX_SEC,
                              WIN_MAX_TOKENS)
       IN
       /\ q' = Tail(q)
       /\ IF sn.raised
          THEN /\ JobFailed(job)
               /\ jobst' = [jobst EXCEPT ![job.jid].taken = @ + 1, ![job.jid].st = "error"]
          ELSE /\ lw' = [pc |-> "call", job |-> job, attempt |-> 0, snip |-> sn]
               /\ jobst' = [jobst EXCEPT ![job.jid].taken = @ + 1, ![job.jid].st = "running"]
               /\ UNCHANGED <<summaries, errlog, errfile>>
    /\ UNCHANGED <<kwfile, today, seen_count, cancelled>>
    /\ UNCHANGED offLlm

\* summarize lines 114-153 and _process lines 104-130: one backend call ends
BackendReturn(res) ==
    /\ ~cancelled
    /\ lw.pc = "call"
    /\ IF res.ok
       THEN /\ summaries' = Append(summaries, MkRecord(lw.job, lw.snip, res))
            /\ lw' = [pc |-> worker_after("saved"), job |-> NoJob, attempt |-> 0,
                      snip |-> NoSnip]
            /\ jobst' = [jobst EXCEPT ![lw.job.jid].st = "success"]
            /\ UNCHANGED <<errlog, errfile>>
       ELSE IF GiveUp(lw.attempt + 1)
            THEN /\ JobFailed(lw.job)
                 /\ jobst' = [jobst EXCEPT ![lw.job.jid].fails = @ + 1,
                                           ![lw.job.jid].st = "error"]
            ELSE /\ lw' = [lw EXCEPT !.pc = "sleep", !.attempt = @ + 1]
                 /\ jobst' = [jobst EXCEPT ![lw.job.jid].fails = @ + 1]
                 /\ UNCHANGED <<summaries, errlog, errfile>>
    /\ UNCHANGED <<kwfile, today, seen_count, q, cancelled>>
    /\ UNCHANGED offLlm

\* summarize line 153: the backoff sleep ends
WakeUp ==
    /\ ~cancelled
    /\ lw.pc = "sleep"
    /\ lw' = [lw EXCEPT !.pc = "call"]
    /\ UNCHANGED <<kwfile, today, seen_count, q, summaries, errlog, errfile, jobst, cancelled>>
    /\ UNCHANGED offLlm

\* watch_today lines 83-91: the process is interrupted, the worker task is
\* cancelled at its current await
Cancel ==
    /\ ~cancelled
    /\ cancelled' = TRUE
    /\ lw' = [lw EXCEPT !.pc = "dead"]
    /\ UNCHANGED <<kwfile, today, seen_count, q, summaries, errlog, errfile, jobst>>
    /\ UNCHANGED offLlm

\* the worker with a day file that every pass of the watcher can read
LlmNext ==
    \/ \E ng \in BOOLEAN, words \in SUBSET Words : LogAppend(ng, words)
    \/ WatchPoll("ok")
    \/ WorkerGet
    \/ \E res \in BackendResults : BackendReturn(res)
    \/ WakeUp
    \/ Cancel

SpecLlm == LlmInit /\ [][LlmNext]_vars

\* the same program with the default keywords (no keyword file); the event
\* loop runs every ready task, and every backend call returns or raises
LlmLiveInit == LlmInit /\ kwfile.form = "missing"

\* backend outcomes told apart only by success and failure
LiveResults == {r \in BackendResults : r.severity <= 1 /\ r.ng_word # "other"}

LlmLiveNext ==
    \/ \E words \in {{}, {"dogeza"}} : LogAppend(TRUE, words)
    \/ WatchPoll("ok")
    \/ WorkerGet
    \/ \E res \in LiveResults : BackendReturn(res)
    \/ WakeUp
    \/ Cancel

SpecLlmLive ==
    /\ LlmLiveInit
    /\ [][LlmLiveNext]_vars
    /\ WF_vars(WatchPoll("ok"))
    /\ WF_vars(WorkerGet)
    /\ WF_vars(\E res \in LiveResults : BackendReturn(res))
    /\ WF_vars(WakeUp)

(* ---- the audio source: src/audio/sd_input.py and the supervisory ----- *)
(* ---- loop of scripts/rt_stream.py, statement by statement ------------ *)
offSd == <<pipeVars, vadVars, winVars, llmVars, auxVars>>

\* an access to a field of SDInput
Acc(var, thread, write, locked) ==
    [var |-> var, thread |-> thread, write |-> write, locked |-> locked]
\* the writers of the fields after the accesses A
Writers(A) ==
    [v \in {"buf", "ts"} |-> wr[v] \cup {a.thread : a \in {b \in A : b.var = v /\ b.write}}]

\* RTStreamConfig.INPUT_DEVICE: None, a device index, a part of a device name
InputDevices == {"none", "index", "name"}

\* SDInput._resolve_device: the index handed to RawInputStream, "none" being
\* the platform default; found: the name is part of an input device's name
\* and query_devices did not raise
_resolve_device(device, found) ==
    IF device \in {"none", "index"} THEN device
    ELSE IF found THEN "index" ELSE "none"

SdInit ==
    /\ cfg = [finalOnHitOnly |-> TRUE]
    /\ PipeStart
    /\ VadIdle
    /\ WinIdle
    /\ LlmIdle
    /\ AuxIdle
    /\ sdcfg \in [fallback : BOOLEAN, device : InputDevices]
    /\ SdNew

\* SDInput.stop, lines 138-149 (stream.stop() returns once a running callback
\* has returned)
sd_stop(s) == [s EXCEPT !.stream = "none"]

\* faulty variant: the first failure goes straight to the default device
NextAfterFail_NoRetry(n, fallback) ==
    IF n = 1 THEN (IF fallback THEN "e_sleep2" ELSE "raise")
    ELSE "raise"

\* _ensure_input_started lines 161-174: where the n-th failed start leads
NextAfterFail(n, fallback) ==
    IF n = 1 THEN "e_sleep1"
    ELSE IF n = 2 THEN (IF fallback THEN "e_sleep2" ELSE "raise")
    ELSE "raise"

\* the stream when an exception leaves main: the finally clause of lines
\* 263-264 covers the loop, not the call of line 176
LeaveMain(ctx, s) == IF ctx = "loop" THEN sd_stop(s) ELSE s

\* line 156: sd_in.stop() at the head of _ensure_input_started
SdEnsStop ==
    /\ sdmain.pc = "e_stop"
    /\ sdcb = "idle"
    /\ sdin' = sd_stop(sdin)
    /\ ens' = [trace |-> <<[op |-> "stop"]>>, res |-> "running"]
    /\ sdmain' = [sdmain EXCEPT !.pc = "e_try1"]
    /\ sacc' = {}
    /\ UNCHANGED <<sdcfg, sdlock, sdcb, pool, wr>>
    /\ UNCHANGED offSd

TryNo == [e_try1 |-> 1, e_try2 |-> 2, e_try3 |-> 3]

\* lines 160, 165, 172: one sd_in.start(device); SDInput.start lines 117-136:
\* stop, reset of _last_cb_ts, RawInputStream(...) and stream.start(), either
\* of which can raise
SdTry(outcome, found) ==
    /\ sdmain.pc \in {"e_try1", "e_try2", "e_try3"}
    /\ sdcb = "idle"
    /\ LET n == TryNo[sdmain.pc]
           dev == IF n = 3 THEN "default" ELSE "configured"
           dev_idx == _resolve_device(IF n = 3 THEN "none" ELSE sdcfg.device, found)
           A == {Acc("ts", "main", TRUE, FALSE)}
           nxt == NextAfterFail(n, sdcfg.fallback)
           stream == IF outcome = "ok" THEN "active"
                     ELSE IF outcome = "fail_start" THEN "created" ELSE "none"
           s1 == [sdin EXCEPT !.stream = stream, !.ts = 0]
       IN
       /\ sacc' = A
       /\ wr' = Writers(A)
       /\ IF outcome = "ok"
          THEN /\ sdin' = s1
               /\ ens' = [trace |-> Append(ens.trace, [op |-> "start", dev |-> dev, ok |-> TRUE,
                                                       opened |-> dev_idx]),
                          res |-> "ok"]
               /\ sdmain' = [sdmain EXCEPT !.pc = "loop", !.ctx = "loop"]
          ELSE /\ ens' = [trace |-> Append(ens.trace, [op |-> "start", dev |-> dev, ok |-> FALSE,
                                                       opened |-> dev_idx]),
                          res |-> IF nxt = "raise" THEN "raised" ELSE "running"]
               /\ IF nxt = "raise"
                  THEN /\ sdin' = LeaveMain(sdmain.ctx, s1)
                       /\ sdmain' = [sdmain EXCEPT !.pc = "exited",
                                        !.exit = IF sdmain.ctx = "loop" THEN "restart_failed"
                                                 ELSE "initial_start_failed"]
                  ELSE /\ sdin' = s1
                       /\ sdmain' = [sdmain EXCEPT !.pc = nxt]
    /\ UNCHANGED <<sdcfg, sdlock, sdcb, pool>>
    /\ UNCHANGED offSd

\* lines 163 and 171: time.sleep(RESTART_BACKOFF_S) and (RESTART_BACKOFF_S * 2)
SdSleep ==
    /\ sdmain.pc \in {"e_sleep1", "e_sleep2"}
    /\ ens' = [ens EXCEPT !.trace = Append(@, [op |-> "sleep",
                   s |-> IF sdmain.pc = "e_sleep1" THEN RESTART_BACKOFF_S
                         ELSE RESTART_BACKOFF_S * 2])]
    /\ sdmain' = [sdmain EXCEPT !.pc = IF sdmain.pc = "e_sleep1" THEN "e_try2" ELSE "e_try3"]
    /\ sacc' = {}
    /\ UNCHANGED <<sdcfg, sdin, sdlock, sdcb, pool, wr>>
    /\ UNCHANGED offSd

\* lines 181-196: one poll tick.  elapsed: more than
\* HOTPLUG_LIVENESS_TIMEOUT_S have passed since _last_cb_ts
SdPoll(elapsed) ==
    /\ sdmain.pc = "loop"
    /\ LET active == sdin.stream = "active"
           stale == sdin.ts = 0 \/ elapsed
           A0 == IF active THEN {Acc("ts", "main", FALSE, FALSE)} ELSE {}
       IN
       IF (~active) \/ stale
       THEN /\ sdmain.restarts < MaxRestarts
            /\ sdmain' = [sdmain EXCEPT !.pc = "e_stop", !.restarts = @ + 1]
            /\ sacc' = A0
            /\ UNCHANGED <<sdin, wr>>
       ELSE /\ sdlock = "free"
            /\ sdin' = [sdin EXCEPT !.buf = 0]
            /\ sacc' = A0 \cup {Acc("buf", "main", TRUE, TRUE)}
            /\ wr' = Writers({Acc("buf", "main", TRUE, TRUE)})
            /\ UNCHANGED sdmain
    /\ UNCHANGED <<sdcfg, sdlock, sdcb, ens, pool>>
    /\ UNCHANGED offSd

\* SDInput.read_bytes, lines 151-154
SdReadBytes ==
    /\ sdmain.pc = "loop"
    /\ sdlock = "free"
    /\ sacc' = {Acc("buf", "main", FALSE, TRUE)}
    /\ UNCHANGED <<sdcfg, sdin, sdlock, sdmain, sdcb, ens, pool, wr>>
    /\ UNCHANGED offSd

\* line 235: the first submit_final creates the executor (_ensure_executor)
SdSubmit ==
    /\ sdmain.pc = "loop"
    /\ pool = "none"
    /\ pool' = "running"
    /\ sacc' = {}
    /\ UNCHANGED <<sdcfg, sdin, sdlock, sdmain, sdcb, ens, wr>>
    /\ UNCHANGED offSd

\* Ctrl+C: in the try block lines 261-265 run; during the call of line 176
\* the KeyboardInterrupt leaves main directly
SdInterrupt ==
    /\ sdmain.pc # "exited"
    /\ sdcb = "idle"
    /\ sdin' = LeaveMain(sdmain.ctx, sdin)
    /\ sdmain' = [sdmain EXCEPT !.pc = "exited", !.exit = "interrupt"]
    /\ ens' = [ens EXCEPT !.res = IF @ = "running" THEN "interrupted" ELSE @]
    /\ sacc' = {}
    /\ UNCHANGED <<sdcfg, sdlock, sdcb, pool, wr>>
    /\ UNCHANGED offSd

\* callback line 104: self._last_cb_ts = time.monotonic()
CbStamp ==
    /\ sdin.stream = "active"
    /\ sdcb = "idle"
    /\ sdin' = [sdin EXCEPT !.ts = 1]
    /\ sdcb' = "stamped"
    /\ sacc' = {Acc("ts", "cb", TRUE, FALSE)}
    /\ wr' = Writers({Acc("ts", "cb", TRUE, FALSE)})
    /\ UNCHANGED <<sdcfg, sdlock, sdmain, ens, pool>>
    /\ UNCHANGED offSd

\* callback line 109: with self._lock
CbLock ==
    /\ sdcb = "stamped"
    /\ sdlock = "free"
    /\ sdlock' = "cb"
    /\ sdcb' = "locked"
    /\ sacc' = {}
    /\ UNCHANGED <<sdcfg, sdin, sdmain, ens, pool, wr>>
    /\ UNCHANGED offSd

\* callback lines 110-112: the block is appended (deque(maxlen=max_blocks)
\* drops the oldest block when full) and the lock is released
CbStore ==
    /\ sdcb = "locked"
    /\ sdin' = [sdin EXCEPT !.buf = IF @ < MaxBlocks THEN @ + 1 ELSE MaxBlocks]
    /\ sdlock' = "free"
    /\ sdcb' = "idle"
    /\ sacc' = {Acc("buf", "cb", TRUE, TRUE)}
    /\ wr' = Writers({Acc("buf", "cb", TRUE, TRUE)})
    /\ UNCHANGED <<sdcfg, sdmain, ens, pool>>
    /\ UNCHANGED offSd

\* the device goes away: the stream exists but is no longer active
SdUnplug ==
    /\ sdin.stream = "active"
    /\ sdin' = [sdin EXCEPT !.stream = "inactive"]
    /\ sacc' = {}
    /\ UNCHANGED <<sdcfg, sdlock, sdmain, sdcb, ens, pool, wr>>
    /\ UNCHANGED offSd

SdNext ==
    \/ SdEnsStop
    \/ \E outcome \in {"ok", "fail_create", "fail_start"}, found \in BOOLEAN :
          SdTry(outcome, found)
    \/ SdSleep
    \/ \E elapsed \in BOOLEAN : SdPoll(elapsed)
    \/ SdReadBytes
    \/ SdSubmit
    \/ SdInterrupt
    \/ CbStamp
    \/ CbLock
    \/ CbStore
    \/ SdUnplug

SpecSd == SdInit /\ [][SdNext]_vars

Next ==
    \/ \E res \in StartResults : StartInput(res)
    \/ \E active, stale \in BOOLEAN, res \in StartResults : PollRestart(active, stale, res)
    \/ \E n \in 0..MaxBatch : PollFeed(n)
    \/ \E text \in Texts, failAt \in {"none", "transcribe", "detect", "append"} :
          HandleFast(text, failAt)
    \/ \E ok \in BOOLEAN : SubmitFinal(ok)
    \/ AttachCallback
    \/ Interrupt
    \/ \E t \in Threads : CbRead(t)
    \/ \E t \in Threads : CbWrite(t)
    \/ \E t \in Threads : CbAppend(t)
    \/ \E w \in Workers : WorkerTake(w)
    \/ \E w \in Workers, res \in Texts \cup {"raise"} : WorkerFinish(w, res)
    \/ Tick
    \/ ProcessStart

Spec == Init /\ [][Next]_vars

(* ======================== the claims ================================== *)
\* the step just taken finished _on_done with a log write
FinalDone == ev.op \in {"final_replaced", "final_appended"}

\* indices of the lines of day d that carry [ID:eid]
LinesFor(d, eid) == {i \in 1..Len(log[d]) : log[d][i].id = eid}

\* C1: once the FINAL result of an utterance with entry id X (not rejected by
\* the filter) has been handled, the day's log holds exactly one line for X,
\* and that line has stage FINAL and the FINAL text and hits (whether it was
\* replaced in place or appended because no line for X was found).
C1_ExactlyOneFinalLine ==
    FinalDone =>
        /\ Cardinality(LinesFor(ev.day, ev.eid)) = 1
        /\ \A i \in LinesFor(ev.day, ev.eid) :
              /\ log[ev.day][i].stage = "FINAL"
              /\ log[ev.day][i].text = ev.text
              /\ log[ev.day][i].hits = ev.hits

\* C2: under every interleaving of FAST appends and FINAL replace/append, no
\* step loses a line: each day file keeps every line it had, at its place,
\* with its timestamp and entry id (as written or as its FINAL replacement).
C2_NoLineLost ==
    [][\A d \in Days :
          /\ Len(log'[d]) >= Len(log[d])
          /\ \A i \in 1..Len(log[d]) :
                /\ log'[d][i].id = log[d][i].id
                /\ log'[d][i].ts = log[d][i].ts]_vars

\* C3: handling an utterance whose FAST text is banned writes nothing to the
\* log, calls no keyword detection, takes no entry id, submits no FINAL pass,
\* and the loop goes on with the next utterance.
C3_BannedFastDiscarded ==
    [][(nUtt' = nUtt + 1 /\ is_banned(ev'.text)) =>
          /\ UNCHANGED <<log, _ID_COUNTER, queue, fut>>
          /\ ~ev'.detected
          /\ ev'.eid = NoId
          /\ pc' = "loop"
          /\ batch' = batch - 1
          /\ exitCause' = exitCause]_vars

C3_Witness == ev.op = "fast_banned" /\ is_banned(ev.text) /\ ev.uid = nUtt /\ batch > 0

\* C4: when the FINAL text is rejected by the hallucination filter, _on_done
\* returns at once: the log is unchanged and no warning is played.
C4_BannedFinalLeavesLog ==
    [][\A t \in Threads :
          (cb[t].st = "read" /\ is_banned(cb[t].text) /\ cb'[t] # cb[t]) =>
              /\ log' = log
              /\ ~ev'.alert
              /\ cb'[t].st = "none"]_vars

C4_Witness ==
    /\ ev.op = "final_banned"
    /\ \E d \in Days : \E i \in 1..Len(log[d]) :
          log[d][i].uid = ev.uid /\ log[d][i].stage = "FAST"

\* C5: a FINAL pass is submitted, and so its replace/append runs, only for an
\* utterance whose FAST line was appended before.
C5_FastBeforeFinal ==
    /\ \A u \in Uids : fut[u].state # "none" => fut[u].logged
    /\ pc \in {"submit", "attach", "callback"} => cur.logged
    /\ \A t \in Threads : cb[t].st # "none" => fut[cb[t].uid].logged
    /\ FinalDone => fut[ev.uid].logged

C5_Witness == FinalDone /\ fut[ev.uid].logged

\* C6: the warning is played only by a FINAL completion whose text passes
\* the filter and has at least one keyword hit; no FAST step plays it, and a
\* FINAL text without a hit plays none.
C6_AlertOnlyOnFinalHit ==
    /\ ev.alert =>
          /\ FinalDone
          /\ ~is_banned(ev.text)
          /\ detect(ev.text) # <<>>
          /\ ev.hits = detect(ev.text)
    /\ (FinalDone /\ detect(ev.text) = <<>>) => ~ev.alert

C6_Witness == ev.alert /\ FinalDone

\* C7: when the FINAL pass raised, _on_done ends with a log write, and the
\* day's log then holds exactly one FINAL line for the entry id, whose text is
\* the error marker.
C7_FinalErrorLogged ==
    ((FinalDone \/ ev.op = "final_banned") /\ ev.err) =>
        LET F == {i \in LinesFor(ev.day, ev.eid) : log[ev.day][i].stage = "FINAL"} IN
        /\ FinalDone
        /\ Cardinality(F) = 1
        /\ \A i \in F : log[ev.day][i].text = FINAL_ERROR

C7_Witness == FinalDone /\ ev.err

\* C8: an exception raised while handling one utterance is caught there: the
\* main thread stays in the loop with the rest of the batch, and main is never
\* left because of it.
C8_UtteranceExceptionCaught ==
    [][(ev'.op = "utt_exception" /\ ev' # ev) =>
          /\ pc' = "loop"
          /\ batch' = batch - 1
          /\ exitCause' = "none"]_vars

C8_Witness == ev.op = "utt_exception" /\ pc = "loop" /\ batch > 0

\* C9: every exception raised on the restart path of the supervisory loop is
\* caught, and the loop continues at the next poll tick.
C9_RestartExceptionsCaught ==
    (ev.op = "restart" /\ ev.err) => (pc = "loop" /\ exitCause = "none")

(* ------------------------- segmenter claims --------------------------- *)
SpeechFrames == {k \in 1..NFrames : vpat[k]}
FirstSpeech == CHOOSE k \in SpeechFrames : \A j \in SpeechFrames : k <= j
LastSpeech == CHOOSE k \in SpeechFrames : \A j \in SpeechFrames : j <= k
\* exactly one contiguous speech region, with silence before and after it
OneRegion ==
    /\ SpeechFrames # {}
    /\ \A k \in FirstSpeech..LastSpeech : vpat[k]
    /\ FirstSpeech > 1
    /\ LastSpeech < NFrames
RegionLen == LastSpeech - FirstSpeech + 1
Leading == FirstSpeech - 1
Trailing == NFrames - LastSpeech
AllFed == vpat # <<>> /\ vpos = StreamBytes
FrameCount(utt) == Len(utt) \div FrameBytes
Min(a, b) == IF a <= b THEN a ELSE b

LongRegionAt(a) ==
    /\ a + MaxFrames <= NFrames
    /\ \A k \in a..(a + MaxFrames) : vpat[k]
HasLongRegion == vpat # <<>> /\ \E a \in 1..NFrames : LongRegionAt(a)

\* C11: a speech region longer than max_frames frames is force-split into
\* several emitted utterances (once the silence that closes it has been fed),
\* and no emitted utterance has more than max_frames frames, padding included.
C11_ForceSplitBounded ==
    HasLongRegion =>
        /\ \A k \in 1..Len(vout) : FrameCount(vout[k]) <= MaxFrames
        /\ (AllFed /\ \A k \in (NFrames - PostFrames)..NFrames : ~vpat[k]) =>
              Len(vout) >= 2

(* ------------------------- windowing claims --------------------------- *)
WinDone == snip.done /\ ~snip.raised
OneSecondApart == \A i \in 1..Len(wlines) : wlines[i].ts = i - 1
Span == window_duration(wlines, snip.lo_index, snip.hi_index)
RoomLeft == snip.lo_index > 0 \/ snip.hi_index < Len(wlines) - 1

\* C19 as stated: with all lines one second apart, the returned window spans
\* at least min_sec whenever room to expand is left on at least one side, and
\* at most max_sec.
C19_Original ==
    (WinDone /\ OneSecondApart /\ wcfg.min_sec <= wcfg.max_sec) =>
        /\ RoomLeft => Span >= wcfg.min_sec
        /\ Span <= wcfg.max_sec

\* the token cap left the time-capped window as it was
TokenCapIdle ==
    snip.lo_index = snip.capped.lo /\ snip.hi_index = snip.capped.hi

\* C19 amended: with all lines one second apart the returned window spans at
\* most max_sec, and at least min_sec whenever room to expand is left on at
\* least one side and the token cap did not shrink the window (for
\* min_sec <= max_sec).
C19_SpanWithinLimits ==
    (WinDone /\ OneSecondApart /\ wcfg.min_sec <= wcfg.max_sec) =>
        /\ (RoomLeft /\ TokenCapIdle) => Span >= wcfg.min_sec
        /\ Span <= wcfg.max_sec

C19_Witness ==
    /\ WinDone /\ OneSecondApart /\ RoomLeft /\ TokenCapIdle
    /\ wcfg.min_sec <= wcfg.max_sec
    /\ snip.expanded.hi - snip.expanded.lo > 4
    /\ Span >= wcfg.min_sec
    /\ Span <= wcfg.max_sec

\* C20: for every non-empty log and valid trigger index i, build_window
\* returns 0 <= lo_index <= i <= hi_index <= len(lines) - 1, the snippet's
\* turns are exactly the lines lo_index..hi_index in order, and neither the
\* expansion nor a contraction moves a bound past the trigger or outside the log.
InLog(w) == 0 <= w.lo /\ w.lo <= wng /\ wng <= w.hi /\ w.hi <= Len(wlines) - 1
C20_WindowHoldsTrigger ==
    WinDone =>
        /\ InLog([lo |-> snip.lo_index, hi |-> snip.hi_index])
        /\ InLog(snip.expanded)
        /\ InLog(snip.capped)
        /\ Len(snip.turns) = snip.hi_index - snip.lo_index + 1
        /\ \A k \in 1..Len(snip.turns) : snip.turns[k].idx = snip.lo_index + k - 1
        /\ \A k \in 1..Len(snip.turns) : snip.turns[k] = wlines[snip.lo_index + k]

C20_Witness ==
    /\ WinDone
    /\ ~OneSecondApart
    /\ snip.capped # snip.expanded
    /\ snip.lo_index < wng /\ wng = snip.hi_index

(* ----------------------- summarization claims ------------------------- *)
NSuccess(j) == Cardinality({i \in 1..Len(summaries) : summaries[i].jid = j})
NError(j) == Cardinality({i \in 1..Len(errlog) : errlog[i].jid = j})
\* the worker is through with job j
JobDone(j) == jobst[j].taken >= 1 /\ lw.job.jid # j

\* C12: a job whose backend call failed fewer than max_retries + 1 times (so
\* also max_retries - 1 times) and then succeeded has exactly one success
\* record and no error record; a job whose backend call failed
\* max_retries + 1 times has exactly one error record and no success record.
C12_RetryOutcome ==
    \A j \in Jids :
        JobDone(j) =>
            /\ jobst[j].fails <= max_retries =>
                  (NSuccess(j) = 1 /\ NError(j) = 0 /\ jobst[j].st = "success")
            /\ jobst[j].fails = max_retries + 1 =>
                  (NError(j) = 1 /\ NSuccess(j) = 0 /\ jobst[j].st = "error"
                   /\ errfile[j - 1] = j)
            /\ jobst[j].fails <= max_retries + 1

C12_Witness ==
    \E i, j \in Jids :
        /\ JobDone(i) /\ jobst[i].fails = max_retries - 1 /\ NSuccess(i) = 1
        /\ JobDone(j) /\ jobst[j].fails = max_retries + 1 /\ NError(j) = 1

\* C13: every job taken from the queue ends with exactly one of a success
\* record and an error record; it is never put back on the queue and never
\* taken twice.
C13_OneTerminalOutcome ==
    \A j \in Jids :
        /\ NSuccess(j) + NError(j) <= 1
        /\ jobst[j].taken <= 1
        /\ jobst[j].taken = 1 => \A k \in 1..Len(q) : q[k].jid # j
        /\ JobDone(j) => NSuccess(j) + NError(j) = 1
        /\ (jobst[j].taken = 1 /\ ~JobDone(j)) => NSuccess(j) + NError(j) = 0

C13_Witness ==
    \E i, j \in Jids :
        /\ JobDone(i) /\ NSuccess(i) = 1 /\ NError(i) = 0
        /\ JobDone(j) /\ NError(j) = 1 /\ NSuccess(j) = 0

\* C14: the worker outlives a failed job: every job enqueued, before or after
\* a failure, is eventually dequeued and brought to a terminal outcome
\* (unless the process is stopped).
C14_WorkerOutlivesFailure ==
    \A j \in Jids :
        (jobst[j].st = "queued") ~> (jobst[j].st \in {"success", "error"} \/ cancelled)

C14_Witness ==
    /\ ~cancelled
    /\ jobst[1].st = "error"
    /\ jobst[2].st \in {"success", "error"}
    /\ JobDone(2)

\* C18: the severity of a persisted record is the severity the keyword file
\* gives the job's trigger word, whatever severity the backend returned.
C18_SeverityFromKeywords ==
    \A i \in 1..Len(summaries) :
        LET kw == load_keywords_with_severity(kwfile) IN
        summaries[i].ng_word \in DOMAIN kw.sev_map =>
            summaries[i].severity = kw.sev_map[summaries[i].ng_word]

(* ------------------------ audio source claims ------------------------- *)
IsStart(e, dev) == e.op = "start" /\ e.dev = dev
IsSleep(e, secs) == e.op = "sleep" /\ e.s = secs

\* C15: a restart stops the source, then starts the configured device; after
\* a failure it waits RESTART_BACKOFF_S and starts the configured device once
\* more; after a second failure it waits twice the backoff and starts the
\* default device if FALLBACK_TO_DEFAULT is set, otherwise the second failure
\* propagates.  At most three starts, in that order.
C15_RestartSequence ==
    LET t == ens.trace
        n == Len(t)
    IN
    /\ n <= 6
    /\ n >= 1 => t[1].op = "stop"
    /\ n >= 2 => IsStart(t[2], "configured")
    /\ n >= 3 => (IsSleep(t[3], RESTART_BACKOFF_S) /\ ~t[2].ok)
    /\ n >= 4 => IsStart(t[4], "configured")
    /\ n >= 5 => (IsSleep(t[5], RESTART_BACKOFF_S * 2) /\ ~t[4].ok /\ sdcfg.fallback)
    /\ n >= 6 => IsStart(t[6], "default")
    /\ ens.res = "ok" => (n \in {2, 4, 6} /\ t[n].ok)
    /\ ens.res = "raised" =>
          /\ n = (IF sdcfg.fallback THEN 6 ELSE 4)
          /\ ~t[n].ok

C15_Witness ==
    /\ sdmain.restarts >= 1
    /\ ens.res = "ok"
    /\ Len(ens.trace) = 6

\* C16: on every exit path of main the audio input stream is stopped and
\* closed and the FINAL worker pool is shut down before main is left.
C16_ReleasedOnExit ==
    sdmain.pc = "exited" => (sdin.stream = "none" /\ pool # "running")

\* C17: every read and write of SDInput's block buffer and of its
\* last-callback timestamp happens under SDInput's lock, or the field has a
\* single writing thread.
C17_LockDiscipline ==
    \A a \in sacc : a.locked \/ Cardinality(wr[a.var]) <= 1

\* C21: if the trigger line carries no timestamp, build_window returns a
\* snippet with exactly one turn, the trigger line itself.
C21_UntimedTriggerAlone ==
    (WinDone /\ wlines[wng + 1].ts = NoTime) =>
        /\ Len(snip.turns) = 1
        /\ snip.lo_index = wng
        /\ snip.hi_index = wng

(* ---------------- src/kws/fuzzy.py, src/kws/simple.py ------------------ *)
offKws == <<pipeVars, vadVars, winVars, llmVars, sdVars, smVars, pgVars, extVars>>

\* characters of a raw string: a hiragana, the katakana of the same sound,
\* and a kanji read as two hiragana
RawChars == {"a", "A", "K"}
\* the 'hira' reading the converter gives for one character
HiraOf(c) == IF c = "a" THEN <<"a">> ELSE IF c = "A" THEN <<"a">> ELSE <<"b", "a">>

RECURSIVE Reading(_)
\* "".join(item["hira"] for item in kks.convert(text))
Reading(text) == IF text = <<>> THEN <<>> ELSE HiraOf(Head(text)) \o Reading(Tail(text))

\* _to_hiragana: the text as it is when the conversion raises
_to_hiragana(text, kakasi) ==
    IF text = <<>> THEN <<>>
    ELSE IF kakasi = "ok" THEN Reading(text) ELSE text

Max(a, b) == IF a >= b THEN a ELSE b

RECURSIVE LCS(_, _)
\* length of the longest common subsequence
LCS(a, b) ==
    IF a = <<>> \/ b = <<>> THEN 0
    ELSE IF Head(a) = Head(b) THEN 1 + LCS(Tail(a), Tail(b))
    ELSE Max(LCS(Tail(a), b), LCS(a, Tail(b)))

\* rapidfuzz.fuzz.ratio, rounded down: the normalized indel similarity
ratio(a, b) ==
    IF Len(a) + Len(b) = 0 THEN 100
    ELSE (200 * LCS(a, b)) \div (Len(a) + Len(b))

\* the alignments of a needle of n characters against s: the substrings of
\* n characters and the shorter prefixes and suffixes
Alignments(s, n) ==
    {SubSeq(s, i, i + n - 1) : i \in 1..(Len(s) - n + 1)} \cup
    {SubSeq(s, 1, k) : k \in 1..(n - 1)} \cup
    {SubSeq(s, Len(s) - k + 1, Len(s)) : k \in 1..(n - 1)}

\* rapidfuzz.fuzz.partial_ratio, rounded down: the best ratio of the shorter
\* string against an alignment of the longer one
partial_ratio(s1, s2) ==
    IF s1 = <<>> \/ s2 = <<>> THEN IF s1 = s2 THEN 100 ELSE 0
    ELSE LET short == IF Len(s1) <= Len(s2) THEN s1 ELSE s2
             long == IF Len(s1) <= Len(s2) THEN s2 ELSE s1
             scores == {ratio(short, w) : w \in Alignments(long, Len(short))}
         IN CHOOSE m \in scores : \A x \in scores : x <= m

\* FuzzyKWS.__init__
FuzzyKWS(keywords, threshold, min_hira_len, kakasi) ==
    [keywords |-> keywords,
     keywords_hira |-> [i \in DOMAIN keywords |-> _to_hiragana(keywords[i], kakasi)],
     threshold |-> threshold, min_hira_len |-> min_hira_len, kakasi |-> kakasi]

\* faulty variant: the length test is left out
KwPasses_NoMinLen(self, hira_kw, hira) ==
    /\ hira_kw # <<>>
    /\ partial_ratio(hira_kw, hira) >= self.threshold

\* lines 33-38: is this keyword a hit
KwPasses(self, hira_kw, hira) ==
    /\ hira_kw # <<>>
    /\ Len(hira_kw) >= self.min_hira_len
    /\ partial_ratio(hira_kw, hira) >= self.threshold

RECURSIVE DetectFrom(_, _, _)
\* the loop of detect from the i-th keyword on
DetectFrom(self, hira, i) ==
    IF i > Len(self.keywords) THEN <<>>
    ELSE (IF KwPasses(self, self.keywords_hira[i], hira)
          THEN <<self.keywords[i]>> ELSE <<>>) \o DetectFrom(self, hira, i + 1)

\* FuzzyKWS.detect
FuzzyKWS_detect(self, text) == DetectFrom(self, _to_hiragana(text, self.kakasi), 1)

RawStrings(n) == UNION {[1..k -> RawChars] : k \in 0..n}
KwLists == UNION {[1..k -> RawStrings(MaxKwChars)] : k \in 1..MaxKwList}
Thresholds == {50, 100}

KwsInit ==
    /\ cfg = [finalOnHitOnly |-> TRUE]
    /\ PipeStart
    /\ VadIdle
    /\ WinIdle
    /\ LlmIdle
    /\ SdIdle
    /\ SmIdle
    /\ PgIdle
    /\ ExtIdle
    /\ \E keywords \in KwLists, threshold \in Thresholds, mhl \in 1..MaxKwChars,
          kakasi \in {"ok", "raises"} :
          fkws = FuzzyKWS(keywords, threshold, mhl, kakasi)
    /\ ktext = <<>>
    /\ khits = NoHits

\* the first call of kws.detect
Detect(text) ==
    /\ ~khits.done
    /\ ktext' = text
    /\ khits' = [done |-> TRUE, hits |-> FuzzyKWS_detect(fkws, text)]
    /\ UNCHANGED fkws
    /\ UNCHANGED offKws

KwsNext == \E text \in RawStrings(MaxText) : Detect(text)

SpecKws == KwsInit /\ [][KwsNext]_vars

Range(s) == {s[i] : i \in DOMAIN s}
\* the normalized form of a string under this detector
Norm(s) == _to_hiragana(s, fkws.kakasi)
\* a is a contiguous part of b
IsSubstring(a, b) ==
    \E i \in 1..(Len(b) + 1) :
        i + Len(a) - 1 <= Len(b) /\ SubSeq(b, i, i + Len(a) - 1) = a
\* the keyword qualifies: normalized form non-empty, long enough, score reached
Qualifies(k) ==
    /\ Norm(k) # <<>>
    /\ Len(Norm(k)) >= fkws.min_hira_len
    /\ partial_ratio(Norm(k), Norm(ktext)) >= fkws.threshold

\* C22: detect returns exactly the configured keywords whose normalized form
\* is non-empty, at least min_hira_len long and scores at least the threshold,
\* as their original strings in list order; a keyword whose normalized form is
\* an exact substring of the normalized text is returned for every threshold
\* up to 100, and a keyword whose normalized form is shorter than min_hira_len
\* is never returned.
C22_DetectReturns ==
    khits.done =>
        /\ khits.hits = SelectSeq(fkws.keywords, Qualifies)
        /\ \A k \in Range(fkws.keywords) :
              /\ (/\ Norm(k) # <<>>
                  /\ Len(Norm(k)) >= fkws.min_hira_len
                  /\ IsSubstring(Norm(k), Norm(ktext))
                  /\ fkws.threshold <= 100) => k \in Range(khits.hits)
              /\ Len(Norm(k)) < fkws.min_hira_len => k \notin Range(khits.hits)

\* a kanji keyword found in a kana text at threshold 100, next to a keyword
\* that is in the text too but is too short
C22_Witness ==
    /\ khits.done
    /\ fkws.kakasi = "ok"
    /\ fkws.threshold = 100
    /\ fkws.min_hira_len = 2
    /\ fkws.keywords = << <<"A">>, <<"K">> >>
    /\ ktext = <<"a", "K">>
    /\ khits.hits = << <<"K">> >>

(* ----------------------- src/status_manager.py ------------------------- *)
offSm == <<pipeVars, vadVars, winVars, llmVars, sdVars, kwsVars, pgVars, extVars>>

\* class Status
Statuses == {"IDLE", "RECORDING", "TRANSCRIBING", "ERROR"}

\* a thread enters set_status(status), get_status() or is_recording()
SmCall(t, op, status) ==
    /\ smt[t].pc = "out"
    /\ smt' = [smt EXCEPT ![t] = [SmOut EXCEPT !.op = op, !.pc = "lock", !.arg = status]]
    /\ smg' = IF op = "set_status" THEN [smg EXCEPT !.set = @ \cup {status}] ELSE smg
    /\ UNCHANGED sm
    /\ UNCHANGED offSm

\* faulty variant: the lock is granted while another thread holds it
LockFree_Always(l) == TRUE

\* threading.Lock: can it be acquired
LockFree(l) == l = 0

\* with self._lock: entry
SmAcquire(t) ==
    /\ smt[t].pc = "lock"
    /\ LockFree(sm.lock)
    /\ sm' = [sm EXCEPT !.lock = t]
    /\ smt' = [smt EXCEPT ![t].pc = "in"]
    /\ UNCHANGED smg
    /\ UNCHANGED offSm

\* line 26: self._status = status
SmWrite(t) ==
    /\ smt[t].pc = "in"
    /\ smt[t].op = "set_status"
    /\ sm' = [sm EXCEPT !.status = smt[t].arg]
    /\ smt' = [smt EXCEPT ![t].pc = "unlock"]
    /\ UNCHANGED smg
    /\ UNCHANGED offSm

\* line 33: the value of self._status is taken for the return
SmRead(t) ==
    /\ smt[t].pc = "in"
    /\ smt[t].op # "set_status"
    /\ smt' = [smt EXCEPT ![t].pc = "unlock", ![t].ret = sm.status, ![t].seen = smg.last]
    /\ UNCHANGED <<sm, smg>>
    /\ UNCHANGED offSm

\* with self._lock: exit, and the return of set_status and get_status
SmRelease(t) ==
    /\ smt[t].pc = "unlock"
    /\ sm' = [sm EXCEPT !.lock = 0]
    /\ smt' = [smt EXCEPT ![t].pc = IF smt[t].op = "is_recording" THEN "compare" ELSE "out",
                          ![t].done = smt[t].op # "is_recording"]
    /\ smg' = IF smt[t].op = "set_status" THEN [smg EXCEPT !.last = smt[t].arg] ELSE smg
    /\ UNCHANGED offSm

\* line 39: self.get_status() == Status.RECORDING
is_recording(status) == status = "RECORDING"

\* the return of is_recording
SmCompare(t) ==
    /\ smt[t].pc = "compare"
    /\ smt' = [smt EXCEPT ![t].pc = "out", ![t].res = is_recording(smt[t].ret),
                          ![t].done = TRUE]
    /\ UNCHANGED <<sm, smg>>
    /\ UNCHANGED offSm

SmInit ==
    /\ cfg = [finalOnHitOnly |-> TRUE]
    /\ PipeStart
    /\ VadIdle
    /\ WinIdle
    /\ LlmIdle
    /\ SdIdle
    /\ KwsIdle
    /\ PgIdle
    /\ ExtIdle
    /\ SmNew

SmNext ==
    \E t \in SmThreads :
        \/ \E status \in Statuses : SmCall(t, "set_status", status)
        \/ SmCall(t, "get_status", "IDLE")
        \/ SmCall(t, "is_recording", "IDLE")
        \/ SmAcquire(t)
        \/ SmWrite(t)
        \/ SmRead(t)
        \/ SmRelease(t)
        \/ SmCompare(t)

SpecSm == SmInit /\ [][SmNext]_vars

\* the thread has taken the value get_status returns
HasStatus(t) ==
    /\ smt[t].op \in {"get_status", "is_recording"}
    /\ smt[t].pc \in {"unlock", "compare"} \/ smt[t].done

\* C23: the StatusManager starts in IDLE; get_status returns the value of the
\* latest completed set_status, under every interleaving a status that some
\* thread set or the initial IDLE; is_recording is true exactly when that
\* status is RECORDING.
C23_StatusReadsLatest ==
    /\ smg.set = {} => sm.status = "IDLE"
    /\ \A t \in SmThreads :
          /\ HasStatus(t) =>
                /\ smt[t].ret = smt[t].seen
                /\ smt[t].ret \in smg.set \cup {"IDLE"}
          /\ (smt[t].op = "is_recording" /\ smt[t].done) =>
                (smt[t].res <=> smt[t].ret = "RECORDING")

\* is_recording has answered TRUE in one thread while another thread, which
\* set RECORDING before, waits for the lock to set TRANSCRIBING
C23_Witness ==
    /\ smt[1].op = "is_recording" /\ smt[1].done /\ smt[1].res
    /\ smt[2].op = "set_status" /\ smt[2].pc = "lock" /\ smt[2].arg = "TRANSCRIBING"
    /\ smg.last = "RECORDING"

(* --------------------- scripts/purge_raw_logs.py ----------------------- *)
offPg == <<pipeVars, vadVars, winVars, llmVars, sdVars, kwsVars, smVars, extVars>>

\* the line read back from a file holding only a newline
BlankLine == 0

\* _load_keep_indices: the union of meta.line_indices over the records
_load_keep_indices(sums) == UNION {sums[i].line_indices : i \in DOMAIN sums}

\* _is_ttl_expired
_is_ttl_expired(mtime, t, ttl_hours) == t - mtime >= ttl_hours

RECURSIVE KeepLines(_, _, _)
\* line 69: [ln for i, ln in enumerate(lines) if i in keep], from index i on
KeepLines(lines, keep, i) ==
    IF i >= Len(lines) THEN <<>>
    ELSE (IF i \in keep THEN <<lines[i + 1]>> ELSE <<>>) \o KeepLines(lines, keep, i + 1)

\* lines 82 and 58: "\n".join(new_lines) + "\n" as splitlines() reads it back
WrittenLines(new_lines) == IF new_lines = <<>> THEN <<BlankLine>> ELSE new_lines

\* purge_date: the log file it leaves
purge_date(file, sums, t, ttl_hours, dry_run) ==
    LET keep == _load_keep_indices(sums)
        new_lines == KeepLines(file.lines, keep, 0)
    IN IF ~file.exists THEN file
       ELSE IF ~_is_ttl_expired(file.mtime, t, ttl_hours) THEN file
       ELSE IF keep = {} THEN file
       ELSE IF Len(file.lines) - Len(new_lines) <= 0 THEN file
       ELSE IF dry_run THEN file
       ELSE [file EXCEPT !.lines = WrittenLines(new_lines), !.mtime = t]

\* one run of purge_date on the day
PurgeDate(ttl_hours, dry_run) ==
    /\ plog' = purge_date(plog, psum, pclock, ttl_hours, dry_run)
    /\ pev' = [op |-> "purge", before |-> plog.lines,
               expired |-> plog.exists /\ _is_ttl_expired(plog.mtime, pclock, ttl_hours),
               keep |-> _load_keep_indices(psum)]
    /\ UNCHANGED <<psum, pclock>>
    /\ UNCHANGED offPg

\* src/llm/queue.py lines 107-130: a summary of the lines lo..hi is persisted
PgSummary(lo, hi) ==
    /\ plog.exists
    /\ Len(psum) < MaxPSum
    /\ lo <= hi /\ hi < Len(plog.lines)
    /\ psum' = Append(psum, [line_indices |-> lo..hi,
                             adopted |-> {plog.lines[i + 1] : i \in lo..hi}])
    /\ pev' = NoPurge
    /\ UNCHANGED <<plog, pclock>>
    /\ UNCHANGED offPg

\* an hour passes
PgTick ==
    /\ pclock < MaxPClock
    /\ pclock' = pclock + 1
    /\ pev' = NoPurge
    /\ UNCHANGED <<plog, psum>>
    /\ UNCHANGED offPg

PgInit ==
    /\ cfg = [finalOnHitOnly |-> TRUE]
    /\ PipeStart
    /\ VadIdle
    /\ WinIdle
    /\ LlmIdle
    /\ SdIdle
    /\ KwsIdle
    /\ SmIdle
    /\ ExtIdle
    /\ \/ plog = [exists |-> FALSE, lines |-> <<>>, mtime |-> 0]
       \/ \E n \in 0..MaxPLines :
             plog = [exists |-> TRUE, lines |-> [i \in 1..n |-> i], mtime |-> 0]
    /\ psum = <<>>
    /\ pclock = 0
    /\ pev = NoPurge

PgNext ==
    \/ \E ttl_hours \in 0..MaxTtl, dry_run \in BOOLEAN : PurgeDate(ttl_hours, dry_run)
    \/ \E lo \in 0..(MaxPLines - 1), hi \in 0..(MaxPLines - 1) : PgSummary(lo, hi)
    \/ PgTick

SpecPg == PgInit /\ [][PgNext]_vars

\* the lines some persisted summary adopted
Adopted == UNION {psum[i].adopted : i \in DOMAIN psum}

\* C24: after any sequence of purge_date runs every raw line that a persisted
\* summary adopted is still in the log; a run deletes only lines adopted by
\* no summary, only after the TTL has expired, and leaves a log with no
\* summaries untouched.
C24_AdoptedLinesKept ==
    /\ Adopted \subseteq Range(plog.lines)
    /\ (pev.op = "purge" /\ plog.lines # pev.before) =>
          /\ pev.expired
          /\ pev.keep # {}
          /\ (Range(pev.before) \ Range(plog.lines)) \cap Adopted = {}

\* C25: handling the FINAL result of an utterance changes at most one log
\* line, a line of the same utterance, which keeps its timestamp and its
\* position; every line written for another utterance (also one with the same
\* entry id from an earlier run of the process) is left unchanged.
C25_FinalTouchesOwnLine ==
    [][ev'.op \in {"final_replaced", "final_appended"} =>
          \A d \in Days :
             /\ Len(log'[d]) >= Len(log[d])
             /\ \A i \in 1..Len(log[d]) :
                   log'[d][i] # log[d][i] =>
                      /\ log[d][i].uid = ev'.uid
                      /\ log'[d][i].uid = ev'.uid
                      /\ log'[d][i].ts = log[d][i].ts
             /\ Cardinality({i \in 1..Len(log[d]) : log'[d][i] # log[d][i]}) <= 1]_vars

\* some FINAL pass submitted earlier has not produced its result yet
FinalInFlight(u) == \E v \in Uids : v # u /\ fut[v].state \in {"pending", "running"}

\* C26: for an utterance whose FAST line was written, the FINAL pass is
\* submitted exactly when FINAL_ON_HIT_ONLY is off or the FAST text had a
\* keyword hit; submit_final returns with the result still pending, and the
\* polling loop can write the next utterance's FAST entry whatever the state
\* of the FINAL passes submitted before.
C26_FinalSubmission ==
    /\ ev.op = "fast_logged" =>
          (pc = "submit" <=> ((~cfg.finalOnHitOnly) \/ ev.hits # <<>>))
    /\ ev.op = "submitted" => (pc = "attach" /\ fut[ev.uid].state = "pending")
    /\ (ev.op = "attached" /\ fut[ev.uid].state # "done") => pc = "loop"
    /\ (pc = "loop" /\ batch > 0) => ENABLED HandleFast("hello", "none")

\* the FAST line of a later utterance has just been written while the FINAL
\* pass of an earlier one is pending or running
C26_Witness ==
    /\ ev.op = "fast_logged"
    /\ FinalInFlight(ev.uid)
    /\ \E i \in 1..Len(log[ev.day]) : log[ev.day][i].uid = ev.uid

(* --------------------------- segmenter claims ------------------------- *)
\* the input frames an emitted utterance is made of, in the order it holds them
FramesOf(utt) ==
    [k \in 1..FrameCount(utt) |-> ((utt[(k - 1) * FrameBytes + 1] - 1) \div FrameBytes) + 1]
LastFrameOf(utt) == FramesOf(utt)[FrameCount(utt)]
\* the utterance was closed by the max_frames test, which only a speech frame runs
ForceClosed(utt) == vpat[LastFrameOf(utt)] /\ FrameCount(utt) >= MaxFrames
\* frames taken from the residual so far
FramesDone == (vpos - Len(vad.residual)) \div FrameBytes

\* C27: while an utterance is collected a speech frame resets the
\* post-silence counter, so an utterance not closed by the length limit is
\* closed only by the last of more than post_frames consecutive non-speech
\* frames; shorter pauses between speech never split it.
C27_ClosedBySilenceRun ==
    vpat # <<>> =>
        /\ (vad.collecting /\ FramesDone >= 1 /\ vpat[FramesDone]) => vad.post_silence = 0
        /\ \A n \in 1..Len(vout) :
              ~ForceClosed(vout[n]) =>
                  \A m \in (LastFrameOf(vout[n]) - PostFrames + 1)..(LastFrameOf(vout[n]) + 1) :
                      m >= 1 /\ m <= NFrames /\ ~vpat[m]

\* C28: every emitted utterance is a run of consecutive input frames in input
\* order, and no input frame occurs twice, neither within one utterance nor
\* in two different utterances.
C28_FramesOnce ==
    vpat # <<>> =>
        /\ \A n \in 1..Len(vout) :
              \A k \in 1..(FrameCount(vout[n]) - 1) :
                  FramesOf(vout[n])[k + 1] = FramesOf(vout[n])[k] + 1
        /\ \A n, m \in 1..Len(vout) :
              n # m => Range(FramesOf(vout[n])) \cap Range(FramesOf(vout[m])) = {}

(* ------- the log watcher and the lines rewritten by the pipeline ------- *)
\* rt_stream._replace_log_line as the watcher's day file shows it: the FINAL
\* result rewrites line i in place (timestamp and position kept)
LogReplace(i, ng, words) ==
    /\ i \in 0..(Len(today) - 1)
    /\ today[i + 1].stage = "FAST"
    /\ today' = [today EXCEPT ![i + 1] = [@ EXCEPT !.ng = ng, !.words = words,
                                                   !.stage = "FINAL"]]
    /\ UNCHANGED <<kwfile, seen_count, q, lw, summaries, errlog, errfile, jobst, cancelled>>
    /\ UNCHANGED offLlm

\* the watcher alone, with the default keywords or a plain keyword file
WatchInit == LlmInit /\ kwfile.form \in {"missing", "plain"}

WatchNext ==
    \/ \E ng \in BOOLEAN, words \in SUBSET Words : LogAppend(ng, words)
    \/ \E i \in 0..(MaxLogLen - 1), ng \in BOOLEAN, words \in SUBSET Words :
          LogReplace(i, ng, words)
    \/ WatchPoll("ok")
    \/ Len(q) < MaxLogLen /\ WatchPoll("error")

SpecWatch == WatchInit /\ [][WatchNext]_vars

\* the keywords the watcher loaded
WatchKeywords == load_keywords_with_severity(kwfile).keywords
\* find_ng_indices would report this line
IsNgLine(line) ==
    line.ng \/ \E k \in 1..Len(WatchKeywords) : WatchKeywords[k] \in line.words
\* jobs enqueued so far for line i (no worker takes jobs in SpecWatch)
JobsOf(i) == {n \in 1..Len(q) : q[n].ng_index = i}

\* C29: a line that carries keyword hits once it is settled gets a
\* summarization job, also when the hits first appear in the FINAL text: the
\* watcher never has a settled line with hits behind it without a job for it.
C29_SettledHitEnqueued ==
    \A i \in 0..(Len(today) - 1) :
        (today[i + 1].stage = "FINAL" /\ IsNgLine(today[i + 1]) /\ i < seen_count) =>
            JobsOf(i) # {}

\* C30: while the log only grows or has lines replaced in place, the watcher
\* enqueues exactly one job for each line that is an NG line when first read:
\* none is skipped, none is enqueued twice, and the job's trigger word is the
\* first configured keyword found in the line.
C30_OneJobPerNgLine ==
    /\ \A i \in 0..(Len(today) - 1) : Cardinality(JobsOf(i)) <= 1
    /\ \A i \in 0..(Len(today) - 1) :
          (i < seen_count /\ today[i + 1].stage = "FAST" /\ IsNgLine(today[i + 1])) =>
              JobsOf(i) # {}
    /\ \A n \in 1..Len(q) :
          LET line == q[n].lines[q[n].ng_index + 1] IN
          /\ IsNgLine(line)
          /\ \A k \in 1..Len(WatchKeywords) :
                (/\ WatchKeywords[k] \in line.words
                 /\ \A j \in 1..(k - 1) : WatchKeywords[j] \notin line.words)
                    => q[n].ng_word = WatchKeywords[k]

\* the last sd_in.start of the running or last _ensure_input_started call
\* succeeded, and this is the step just taken
JustStarted ==
    /\ ens.res = "ok"
    /\ sdmain.pc = "loop"
    /\ sacc = {Acc("ts", "main", TRUE, FALSE)}

\* C31: with a specific input device configured and FALLBACK_TO_DEFAULT off
\* the audio source is never started on the platform default device, also when
\* the configured name matches no input device.
C31_NeverOnDefault ==
    (~sdcfg.fallback /\ sdcfg.device # "none") =>
        \A i \in 1..Len(ens.trace) :
            (ens.trace[i].op = "start" /\ ens.trace[i].ok) => ens.trace[i].opened # "none"

\* C32: after a successful (re)start the loop does not restart the source
\* unless it reports inactive or the liveness timeout has passed since the
\* start; an active source whose first callback is still pending at the next
\* poll tick is not restarted.
C32_NoRestartBeforeFirstCallback ==
    [][(JustStarted /\ sdin.stream = "active" /\ sdin.ts = 0) =>
          sdmain'.pc # "e_stop"]_vars

(* ------------------- SDInput buffer, block by block ------------------- *)
\* src/audio/sd_input.py: the callback of lines 100-115 and pop_all of lines
\* 156-163 run on two threads; blocks are numbered in arrival order
MaxArrive == 5
MaxPops == 3

offBuf == <<pipeVars, vadVars, winVars, llmVars, sdVars, kwsVars, smVars, pgVars, gem, dw, ids>>

\* faulty variant: the with-statements do not exclude each other
BufLockFree_Always(l) == TRUE

\* threading.Lock: a with-statement enters when no thread holds the lock
BufLockFree(l) == l = "free"

\* deque(maxlen=max_blocks).append: a full deque drops its oldest element
deque_append(buf, b) ==
    IF Len(buf) >= MaxBlocks THEN Append(Tail(buf), b) ELSE Append(buf, b)

\* callback line 109: with self._lock
callback_lock ==
    /\ sbuf.cb = "idle"
    /\ sbuf.arrived < MaxArrive
    /\ BufLockFree(sbuf.lock)
    /\ sbuf' = [sbuf EXCEPT !.cb = "locked", !.lock = "cb"]
    /\ UNCHANGED offBuf

\* callback lines 110-112: the block is stored and the lock released
callback_append ==
    /\ sbuf.cb = "locked"
    /\ LET b == sbuf.arrived + 1
       IN sbuf' = [sbuf EXCEPT !.buf = deque_append(@, b),
                               !.evicted = IF Len(sbuf.buf) >= MaxBlocks
                                           THEN @ \cup {Head(sbuf.buf)} ELSE @,
                               !.arrived = b,
                               !.cb = "idle",
                               !.lock = IF @ = "cb" THEN "free" ELSE @]
    /\ UNCHANGED offBuf

\* pop_all line 158: with self._lock
pop_all_lock ==
    /\ sbuf.pop = "idle"
    /\ sbuf.pops < MaxPops
    /\ BufLockFree(sbuf.lock)
    /\ sbuf' = [sbuf EXCEPT !.pop = "locked", !.lock = "main"]
    /\ UNCHANGED offBuf

\* pop_all lines 159-161: an empty buffer returns b"" at once, otherwise the
\* blocks are copied into chunks
pop_all_copy ==
    /\ sbuf.pop = "locked"
    /\ IF sbuf.buf = <<>>
       THEN sbuf' = [sbuf EXCEPT !.pop = "idle", !.pops = @ + 1,
                                 !.lock = IF @ = "main" THEN "free" ELSE @]
       ELSE sbuf' = [sbuf EXCEPT !.pop = "copied", !.chunks = sbuf.buf]
    /\ UNCHANGED offBuf

\* pop_all line 162: self._buf.clear()
pop_all_clear ==
    /\ sbuf.pop = "copied"
    /\ sbuf' = [sbuf EXCEPT !.pop = "cleared", !.buf = <<>>]
    /\ UNCHANGED offBuf

\* pop_all line 163: the joined chunks are returned and the lock released
pop_all_return ==
    /\ sbuf.pop = "cleared"
    /\ sbuf' = [sbuf EXCEPT !.pop = "idle", !.ret = @ \o sbuf.chunks,
                            !.chunks = <<>>, !.pops = @ + 1,
                            !.lock = IF @ = "main" THEN "free" ELSE @]
    /\ UNCHANGED offBuf

BufInit ==
    /\ PipeStart /\ cfg = [finalOnHitOnly |-> TRUE]
    /\ VadIdle /\ WinIdle /\ LlmIdle /\ SdIdle
    /\ KwsIdle /\ SmIdle /\ PgIdle
    /\ sbuf = BufNew
    /\ gem = GemNew
    /\ dw = DwNew /\ ids = IdsNew

BufNext ==
    \/ callback_lock
    \/ callback_append
    \/ pop_all_lock
    \/ pop_all_copy
    \/ pop_all_clear
    \/ pop_all_return

SpecBuf == BufInit /\ [][BufNext]_vars

\* s holds strictly increasing block numbers
Increasing(s) == \A i, j \in 1..Len(s) : i < j => s[i] < s[j]

\* the blocks pop_all has taken out of the buffer but not yet returned
InHand == IF sbuf.pop = "cleared" THEN Range(sbuf.chunks) ELSE {}

\* C33: under any interleaving of the callback and pop_all the buffer holds at
\* most max_blocks blocks, only the oldest block is ever evicted, and the
\* blocks returned by successive pop_all calls are returned once each, in
\* arrival order, none that was not evicted being skipped.
C33_BoundedFifo ==
    /\ Len(sbuf.buf) <= MaxBlocks
    /\ Increasing(sbuf.ret \o sbuf.buf)
    /\ \A e \in sbuf.evicted : \A b \in Range(sbuf.buf) \cup InHand : e < b
    /\ \A b \in 1..sbuf.arrived :
          \/ b \in Range(sbuf.ret) /\ b \notin sbuf.evicted
          \/ b \in sbuf.evicted /\ b \notin Range(sbuf.ret)
          \/ b \in Range(sbuf.buf) \cup InHand

C33_Witness ==
    /\ sbuf.pops >= 2
    /\ sbuf.evicted # {}
    /\ Len(sbuf.ret) >= 3

(* ------------------- GeminiSummarizer.summarize ------------------------ *)
\* src/llm/client_gemini.py lines 102-153.  Times are in tenths of a second.
base_backoff_s == 1

offGem == <<pipeVars, vadVars, winVars, llmVars, sdVars, kwsVars, smVars, pgVars, sbuf, dw, ids>>

\* what a piece of response text holds: nothing, text that is not JSON, JSON
\* lacking a required key, JSON lacking only severity, the full JSON
Texts34 == {"none", "bad", "nokey", "nosev", "full"}

\* what generate_content does: it raises, or returns a response with a text
\* attribute and, in its first candidate, no content ("nocand"), content
\* without parts ("noparts") or a first part with a text
Responses ==
    {[raises |-> TRUE, text |-> "none", cand |-> "nocand"]}
    \cup [raises : {FALSE}, text : Texts34, cand : {"nocand", "noparts"} \cup Texts34]

\* the random.uniform(-backoff_jitter_s, backoff_jitter_s) of line 150
Jitters == {-2, 0, 2}

RECURSIVE Pow2(_)
Pow2(n) == IF n <= 0 THEN 1 ELSE 2 * Pow2(n - 1)

\* lines 123-142: the outcome of one attempt, "ok" or the exception raised
attempt_outcome(resp) ==
    IF resp.raises THEN "api_error"
    ELSE IF resp.text = "none" /\ resp.cand = "nocand" THEN "empty"
    ELSE LET text == IF resp.text # "none" THEN resp.text
                     ELSE IF resp.cand = "noparts" THEN "none" ELSE resp.cand
         IN IF text = "none" THEN "no_text"
            ELSE IF text = "bad" THEN "json_error"
            ELSE IF text = "nokey" THEN "key_error"
            ELSE "ok"

\* lines 149-152: the sleep before the retry that follows the attempt-th
\* failure, its nominal part and the sleep made
backoff(attempt, jitter) ==
    LET nominal == base_backoff_s * Pow2(attempt - 1) * 10
        sleep_s == nominal + jitter
    IN [nominal |-> nominal, slept |-> IF sleep_s < 1 THEN 1 ELSE sleep_s]

\* one pass of the loop of lines 114-153: the backend is called; the response
\* is returned, or the failure is counted and either raised or slept on
GenerateContent(resp, jitter) ==
    /\ gem.pc = "call"
    /\ LET out == attempt_outcome(resp)
           attempt == gem.attempt + 1
       IN
       IF out = "ok"
       THEN gem' = [gem EXCEPT !.pc = "returned", !.calls = @ + 1, !.last = out,
                               !.data = IF resp.text = "nosev" \/
                                           (resp.text = "none" /\ resp.cand = "nosev")
                                        THEN "severity_2" ELSE "as_sent"]
       ELSE IF GiveUp(attempt)
       THEN gem' = [gem EXCEPT !.pc = "raised", !.calls = @ + 1, !.last = out,
                               !.attempt = attempt]
       ELSE gem' = [gem EXCEPT !.pc = "sleep", !.calls = @ + 1, !.last = out,
                               !.attempt = attempt,
                               !.sleeps = Append(@, backoff(attempt, jitter))]
    /\ UNCHANGED offGem

\* line 153: asyncio.sleep returns, the loop tries again
SleepDone ==
    /\ gem.pc = "sleep"
    /\ gem' = [gem EXCEPT !.pc = "call"]
    /\ UNCHANGED offGem

GemInit ==
    /\ PipeStart /\ cfg = [finalOnHitOnly |-> TRUE]
    /\ VadIdle /\ WinIdle /\ LlmIdle /\ SdIdle
    /\ KwsIdle /\ SmIdle /\ PgIdle
    /\ sbuf = BufNew
    /\ gem = GemNew
    /\ dw = DwNew /\ ids = IdsNew

GemNext ==
    \/ \E resp \in Responses, jitter \in Jitters : GenerateContent(resp, jitter)
    \/ SleepDone

SpecGem == GemInit /\ [][GemNext]_vars

\* C34: one summarize call invokes the backend at most max_retries + 1
\* times; every failure (the call raising, an empty, unparsable or
\* key-missing response) is followed by a backoff sleep and a retry, except the
\* (max_retries + 1)-th, which raises without a sleep; the nominal backoff is
\* base_backoff_s before the first retry and doubles from retry to retry.
C34_RetriesAndBackoff ==
    /\ gem.calls <= max_retries + 1
    /\ Len(gem.sleeps) <= max_retries
    /\ gem.last \notin {"ok", "none"} =>
          \/ gem.pc = "raised" /\ gem.calls = max_retries + 1
                               /\ Len(gem.sleeps) = max_retries
          \/ gem.pc \in {"sleep", "call"} /\ Len(gem.sleeps) = gem.calls
    /\ gem.pc = "returned" <=> gem.last = "ok"
    /\ \A k \in 1..Len(gem.sleeps) :
          gem.sleeps[k].nominal =
              IF k = 1 THEN base_backoff_s * 10 ELSE 2 * gem.sleeps[k - 1].nominal

C34_Witness ==
    /\ gem.pc = "raised"
    /\ gem.last = "key_error"
    /\ Len(gem.sleeps) = max_retries
    /\ gem.sleeps[max_retries].nominal = base_backoff_s * 10 * Pow2(max_retries - 1)

\* C35: on return from build_window the window is the single trigger line or
\* it satisfies both limits as build_window measures them: its duration is at
\* most max_sec and its estimated token count at most max_tokens.
C35_WithinBothLimits ==
    (snip.done /\ ~snip.raised) =>
        \/ snip.lo_index = snip.hi_index
        \/ /\ window_duration(wlines, snip.lo_index, snip.hi_index) <= wcfg.max_sec
           /\ tokens_in(wlines, snip.lo_index, snip.hi_index) <= wcfg.max_tokens

\* the largest number of frames of an utterance
UtteranceCap == Max(MaxFrames, PrevFrames + 1) + PostFrames

\* C36: every utterance emitted by feed has at most
\* max(max_frames, prev_frames + 1) + post_frames frames, and the open
\* utterance buffer never grows beyond that.
C36_UtteranceBounded ==
    /\ \A i \in 1..Len(vout) : Len(vout[i]) <= UtteranceCap * FrameBytes
    /\ Len(vad.current) <= UtteranceCap

C36_Witness ==
    \E i \in 1..Len(vout) : Len(vout[i]) = UtteranceCap * FrameBytes

\* the bytes of the stream fed so far, given to feed in one call
OneCall == feed(VadNew, [i \in 1..vpos |-> i], vpat)

\* C37: feeding a byte stream in any split into chunks, also chunks ending in
\* the middle of a frame, emits the same utterances as feeding it in one call;
\* the bytes short of a frame are kept for the next call and the residual left
\* by feed is shorter than one frame.
C37_ChunkingIndependent ==
    /\ vout = OneCall.out
    /\ vad = OneCall.v
    /\ Len(vad.residual) < FrameBytes
    /\ Len(vad.residual) = vpos % FrameBytes

C37_Witness ==
    /\ vpos > 2 * MaxChunk
    /\ vout # <<>>
    /\ vad.residual # <<>>

(* --------------- build_window, one loop iteration per step ------------- *)
\* src/llm/windowing.py lines 70-112; snip holds the bounds being worked on:
\* [phase, lo, hi, last], last being the loop state before the step just made
\* and whether that step ran a loop body

\* faulty variant: the stop at both ends of the log is missing
expand_iter_NoStop(parsed, lo, hi, min_sec) ==
    LET lo1 == IF lo > 0 THEN lo - 1 ELSE lo IN
    IF lo > 0 /\ window_duration(parsed, lo1, hi) >= min_sec
    THEN [lo |-> lo1, hi |-> hi, leave |-> TRUE]
    ELSE [lo |-> lo1, hi |-> IF hi < Len(parsed) - 1 THEN hi + 1 ELSE hi, leave |-> FALSE]

\* lines 85-92: the body of the expansion loop
expand_iter(parsed, lo, hi, min_sec) ==
    LET lo1 == IF lo > 0 THEN lo - 1 ELSE lo IN
    IF lo > 0 /\ window_duration(parsed, lo1, hi) >= min_sec
    THEN [lo |-> lo1, hi |-> hi, leave |-> TRUE]
    ELSE LET hi1 == IF hi < Len(parsed) - 1 THEN hi + 1 ELSE hi IN
         [lo |-> lo1, hi |-> hi1, leave |-> lo1 = 0 /\ hi1 = Len(parsed) - 1]

LoopState(s, body) == [phase |-> s.phase, lo |-> s.lo, hi |-> s.hi, body |-> body]

\* lines 70-73: the initial bounds
EnterWindow ==
    /\ snip = NoSnip
    /\ wlines # <<>>
    /\ LET lo0 == IF wng - 2 >= 0 THEN wng - 2 ELSE 0
           hi0 == IF Len(wlines) - 1 <= wng + 2 THEN Len(wlines) - 1 ELSE wng + 2
       IN snip' = [raised |-> FALSE, done |-> FALSE, phase |-> "expand",
                   lo |-> lo0, hi |-> hi0,
                   last |-> [phase |-> "enter", lo |-> lo0, hi |-> hi0, body |-> FALSE]]
    /\ UNCHANGED <<wlines, wng, wcfg>>
    /\ UNCHANGED offWin

\* line 84 and one pass of lines 85-92
ExpandIter ==
    /\ snip # NoSnip /\ snip.phase = "expand"
    /\ IF window_duration(wlines, snip.lo, snip.hi) < wcfg.min_sec
       THEN LET r == expand_iter(wlines, snip.lo, snip.hi, wcfg.min_sec) IN
            snip' = [snip EXCEPT !.lo = r.lo, !.hi = r.hi,
                                 !.phase = IF r.leave THEN "time" ELSE "expand",
                                 !.last = LoopState(snip, TRUE)]
       ELSE snip' = [snip EXCEPT !.phase = "time", !.last = LoopState(snip, FALSE)]
    /\ UNCHANGED <<wlines, wng, wcfg>>
    /\ UNCHANGED offWin

\* line 100 and one pass of lines 101-105
TimeIter ==
    /\ snip # NoSnip /\ snip.phase = "time"
    /\ IF window_duration(wlines, snip.lo, snip.hi) > wcfg.max_sec /\ (snip.hi - snip.lo) >= 1
       THEN LET w == Shrink(wng, snip.lo, snip.hi) IN
            snip' = [snip EXCEPT !.lo = w.lo, !.hi = w.hi, !.last = LoopState(snip, TRUE)]
       ELSE snip' = [snip EXCEPT !.phase = "tokens", !.last = LoopState(snip, FALSE)]
    /\ UNCHANGED <<wlines, wng, wcfg>>
    /\ UNCHANGED offWin

\* line 108 and one pass of lines 109-112; leaving the loop, lines 114-125
\* build the Snippet
TokenIter ==
    /\ snip # NoSnip /\ snip.phase = "tokens"
    /\ IF tokens_in(wlines, snip.lo, snip.hi) > wcfg.max_tokens /\ (snip.hi - snip.lo) >= 1
       THEN LET w == Shrink(wng, snip.lo, snip.hi) IN
            snip' = [snip EXCEPT !.lo = w.lo, !.hi = w.hi, !.last = LoopState(snip, TRUE)]
       ELSE snip' = [snip EXCEPT !.phase = "done", !.done = TRUE,
                                 !.last = LoopState(snip, FALSE)]
    /\ UNCHANGED <<wlines, wng, wcfg>>
    /\ UNCHANGED offWin

WinLoopNext ==
    \/ EnterWindow
    \/ ExpandIter
    \/ TimeIter
    \/ TokenIter

SpecWinLoop == WinInit /\ [][WinLoopNext]_vars

\* C39: build_window terminates for every non-empty log and valid trigger
\* index: each iteration of the expansion loop and of the two contraction
\* loops strictly changes lo or hi (widening, respectively narrowing, a window
\* that stays inside the log) or leaves the loop, and the call reaches its end.
C39_LoopsProgress ==
    snip # NoSnip =>
        /\ 0 <= snip.lo /\ snip.lo <= snip.hi /\ snip.hi <= Len(wlines) - 1
        /\ snip.last.body =>
              \/ snip.phase # snip.last.phase
              \/ /\ snip.phase = "expand"
                 /\ snip.hi - snip.lo > snip.last.hi - snip.last.lo
              \/ /\ snip.phase \in {"time", "tokens"}
                 /\ snip.hi - snip.lo < snip.last.hi - snip.last.lo
        /\ snip.phase # "done" => ENABLED WinLoopNext
        /\ snip.phase = "done" =>
              LET w == build_window(wlines, wng, wcfg.min_sec, wcfg.max_sec,
                                    wcfg.max_tokens)
              IN snip.lo = w.lo_index /\ snip.hi = w.hi_index

\* the call returned after iterations of all three loops
C39_Witness ==
    /\ snip # NoSnip
    /\ snip.phase = "done"
    /\ snip.lo > 0
    /\ snip.hi - snip.lo >= 1
    /\ snip.last.phase = "tokens"
    /\ LET w == build_window(wlines, wng, wcfg.min_sec, wcfg.max_sec, wcfg.max_tokens)
       IN /\ w.expanded.hi - w.expanded.lo > w.capped.hi - w.capped.lo
          /\ w.capped.hi - w.capped.lo > snip.hi - snip.lo
          /\ w.expanded.hi - w.expanded.lo > 4

(* ------------- the log watcher across a date change -------------------- *)
\* scripts/llm_worker.py watch_today lines 48-82 and rt_stream.py
\* _append_log_line lines 55-63.  Days are 0 and 1; files[d + 1] is the log
\* file of day d.
MaxDayLines == 2

offDay == <<pipeVars, vadVars, winVars, llmVars, sdVars, kwsVars, smVars, pgVars,
            sbuf, gem, ids>>

\* lines 50-51 and 68-71: date and log_path are computed once, before the
\* loop; every pass reads that file
watched_date(w) == w.date

\* watch_today lines 49-60: the watcher starts
DwStart ==
    /\ ~dw.started
    /\ dw' = [dw EXCEPT !.started = TRUE, !.date = dw.clock, !.seen_count = 0]
    /\ UNCHANGED offDay

\* _append_log_line: the pipeline appends a line to the file of the date of
\* the moment of writing
DwAppend(ng) ==
    /\ Len(dw.files[dw.clock + 1]) < MaxDayLines
    /\ dw' = [dw EXCEPT !.files[dw.clock + 1] = Append(@, [ng |-> ng, words |-> {}])]
    /\ UNCHANGED offDay

\* midnight passes
DwMidnight ==
    /\ dw.clock = 0
    /\ dw' = [dw EXCEPT !.clock = 1]
    /\ UNCHANGED offDay

\* watch_today lines 66-82: one pass of the loop; passes counts the passes
\* modulo 2
DwPass ==
    /\ dw.started
    /\ LET date == watched_date(dw)
           lines == dw.files[date + 1]
           ng_idxs == {i \in find_ng_indices(lines, <<>>) : i >= dw.seen_count}
           jobs == [n \in 1..Cardinality(ng_idxs) |->
                      [date |-> date,
                       ng_index |-> CHOOSE i \in ng_idxs :
                                       Cardinality({j \in ng_idxs : j < i}) = n - 1]]
       IN dw' = [dw EXCEPT !.q = @ \o jobs,
                           !.seen_count = Len(lines),
                           !.passes = (@ + 1) % 2]
    /\ UNCHANGED offDay

DayInit ==
    /\ PipeStart /\ cfg = [finalOnHitOnly |-> TRUE]
    /\ VadIdle /\ WinIdle /\ LlmIdle /\ SdIdle
    /\ KwsIdle /\ SmIdle /\ PgIdle
    /\ sbuf = BufNew /\ gem = GemNew /\ ids = IdsNew
    /\ dw = DwNew

DayNext ==
    \/ DwStart
    \/ \E ng \in BOOLEAN : DwAppend(ng)
    \/ DwMidnight
    \/ DwPass

\* the watcher loop runs a pass every second (line 82)
SpecDay == DayInit /\ [][DayNext]_vars /\ WF_vars(DwPass)

\* a job for line i of day d has been put on the queue
DayEnqueued(d, i) == \E n \in 1..Len(dw.q) : dw.q[n].date = d /\ dw.q[n].ng_index = i

\* the running watcher was started on day 0 and day 1's file holds NG line i
NextDayNg(i) ==
    /\ dw.started /\ dw.date = 0 /\ dw.clock = 1
    /\ i < Len(dw.files[2])
    /\ dw.files[2][i + 1].ng

\* C38: the watcher follows the pipeline across a date change: an NG line
\* written to the next day's file while the watcher runs is eventually
\* enqueued.
C38_NextDayEnqueued ==
    \A i \in 0..(MaxDayLines - 1) : NextDayNg(i) ~> DayEnqueued(1, i)

(* ------------------------- entry ids of one process -------------------- *)
\* scripts/rt_stream.py lines 66-72.  ids.first is the counter before the
\* first of the assignments kept in ids.issued.
MaxIssued == 3
IdSpread == 20

offIds == <<pipeVars, vadVars, winVars, llmVars, sdVars, kwsVars, smVars, pgVars,
            sbuf, gem, dw>>

\* counter values the process has reached: just after its start and around
\* the wrap
IdStarts == 0..(IdSpread - 1) \cup (ID_MODULUS - IdSpread)..(ID_MODULUS - 1)

\* line 222: entry_id = _next_entry_id()
NextEntryId ==
    /\ Len(ids.issued) < MaxIssued
    /\ LET c == _next_entry_id(ids.counter) IN
       ids' = [ids EXCEPT !.counter = c, !.issued = Append(@, Fmt6(c))]
    /\ UNCHANGED offIds

IdsInit ==
    /\ PipeStart /\ cfg = [finalOnHitOnly |-> TRUE]
    /\ VadIdle /\ WinIdle /\ LlmIdle /\ SdIdle
    /\ KwsIdle /\ SmIdle /\ PgIdle
    /\ sbuf = BufNew /\ gem = GemNew /\ dw = DwNew
    /\ \E c \in IdStarts : ids = [counter |-> c, first |-> c, issued |-> <<>>]

IdsNext == NextEntryId

SpecIds == IdsInit /\ [][IdsNext]_vars

\* the number a string of decimal digits reads as
RECURSIVE DigitsValue(_)
DigitsValue(d) ==
    IF d = <<>> THEN 0
    ELSE 10 * DigitsValue(SubSeq(d, 1, Len(d) - 1)) + d[Len(d)]

\* C40: entry ids are the six-digit decimal rendering of a counter advanced
\* by 1 modulo 1,000,000 per assignment, and any two ids assigned within fewer
\* than 1,000,000 consecutive assignments of one process differ.
C40_IdsDistinct ==
    /\ \A i \in 1..Len(ids.issued) :
          /\ Len(ids.issued[i]) = 6
          /\ \A k \in 1..6 : ids.issued[i][k] \in 0..9
          /\ DigitsValue(ids.issued[i]) = (ids.first + i) % ID_MODULUS
    /\ \A i, j \in 1..Len(ids.issued) : i # j => ids.issued[i] # ids.issued[j]

\* the counter wrapped between two of the assignments
C40_Witness ==
    \E i \in 1..(Len(ids.issued) - 1) :
        /\ ids.issued[i] = <<9, 9, 9, 9, 9, 9>>
        /\ ids.issued[i + 1] = <<0, 0, 0, 0, 0, 0>>

====
